---------------------------- MODULE Spec2Model ----------------------------
(***************************************************************************)
(* Model of cistern's terminal UI core:                                    *)
(*   - the hierarchical foldable table (package tui, HierarchicalTable),   *)
(*   - the controller event loop (package main, Controller.Run/process).   *)
(*   - the application loop of the earlier widget UI (RunWidgetApp).       *)
(* Several specifications share the module and its variables: SpecTable    *)
(* drives the table alone with arbitrary forests; Spec drives the          *)
(* controller, its goroutines and the table it owns through a session of   *)
(* ref changes; SpecKeys drives the controller's event handling with the   *)
(* keys of every focus.  The others, each introduced where it is defined,  *)
(* drive one part of the program from the states that matter to it; a      *)
(* variable a specification has no use for keeps its initial value.        *)
(***************************************************************************)
EXTENDS Integers, Sequences, FiniteSets, TLC

VARIABLES
    table,      \* HierarchicalTable: nodes, rows, pageIndex, cursorIndex, height
    last,       \* the operation that produced the current state, with its arguments
    ctl,        \* Controller: ref, focus, height, status, refcmd, searchcmd, tableSearch
    run,        \* Controller.Run: position of the UI task, tmpRef, returned error
                \* (in SpecApp: RunWidgetApp, its screens and goroutines)
    eventc,     \* c.tui.Eventc: a terminal event is waiting to be received
    senders,    \* goroutines sending a ref on refc
    monitors,   \* goroutines started by Run on each ref received, oldest first
    cache,      \* providers.Cache: number of pipelines saved for each known ref
    ctxDone,    \* the context handed to Run is cancelled
    requests    \* number of ref requests made so far

(***************************************************************************)
(* Bounds of the model.                                                    *)
(***************************************************************************)
MaxNodes == 2       \* nodes in a forest handed to Replace
MaxHeight == 3      \* table heights 0..MaxHeight
MaxDelta == 2       \* Scroll amounts -MaxDelta..MaxDelta
MaxRequests == 2    \* ref requests in a run, the initial one included
MaxPipelines == 1   \* pipelines a monitor saves for a ref
MaxInput == 1       \* characters typed in a prompt
MaxSearchNodes == 3 \* nodes in a forest that is searched
InitialHeight == 6  \* lines of the terminal when Run starts

IDs == {1, 2}       \* node identifiers, unique among siblings
Heights == 0 .. MaxHeight
Deltas == (0 - MaxDelta) .. MaxDelta

(***************************************************************************)
(* utils                                                                   *)
(***************************************************************************)
MaxInt(a, b) == IF a > b THEN a ELSE b

MinInt(a, b) == IF a < b THEN a ELSE b

\* a clamp that forgets the lower bound
BoundedUpperOnly(a, lower, upper) == MinInt(a, upper)

Bounded(a, lower, upper) == MaxInt(lower, MinInt(a, upper))

(***************************************************************************)
(* nullInt: the zero value is invalid.                                     *)
(***************************************************************************)
nullInt == [Valid |-> FALSE, Int |-> 0]

validInt(i) == [Valid |-> TRUE, Int |-> i]

(***************************************************************************)
(* TableNode values handed to Replace: [id, children, values, inherited],  *)
(* ids unique among siblings (TableNode.NodeID).  A column value is a      *)
(* sequence of characters.  Size counts the nodes of a forest.             *)
(***************************************************************************)
Columns == {"name"}

tableNode(id, text, children) ==
    [id |-> id, children |-> children,
     values |-> [c \in Columns |-> text], inherited |-> {}]

RECURSIVE Size(_)
Size(forest) ==
    IF forest = <<>> THEN 0
    ELSE 1 + Size(forest[1].children) + Size(Tail(forest))

RECURSIVE Forests(_)
Forests(n) ==
    IF n = 0 THEN {<<>>}
    ELSE {<<>>} \cup UNION {
            { <<tableNode(i, <<i>>, c)>> \o r :
                r \in { x \in Forests(n - 1 - Size(c)) :
                            \A j \in DOMAIN x : x[j].id # i } }
            : i \in IDs, c \in Forests(n - 1) }

InputForests == Forests(MaxNodes)

(***************************************************************************)
(* nodePath: the ids from the top-level node down to the node.  The zero   *)
(* value is the empty path.                                                *)
(***************************************************************************)
zeroPath == <<>>

maxTreeDepth == 10

(***************************************************************************)
(* innerTableNode: [path, traversable, values, children].  A read of the   *)
(* zero node's nil values map gives the empty string.                      *)
(***************************************************************************)
zeroNode ==
    [path |-> zeroPath, traversable |-> FALSE,
     values |-> [c \in Columns |-> <<>>], children |-> <<>>]

\* the children pushed as they come
Unreversed(s) == s

\* the loop that pushes the children from the last to the first
Reverse(s) == [i \in 1 .. Len(s) |-> s[Len(s) + 1 - i]]

RECURSIVE dftLoop(_, _, _)
dftLoop(toBeExplored, explored, traverseAll) ==
    IF toBeExplored = <<>> THEN explored
    ELSE LET node == toBeExplored[Len(toBeExplored)]
             rest == SubSeq(toBeExplored, 1, Len(toBeExplored) - 1)
             next == IF traverseAll \/ node.traversable
                        THEN rest \o Reverse(node.children)
                        ELSE rest
         IN dftLoop(next, Append(explored, node), traverseAll)

\* innerTableNode.depthFirstTraversal
nodeDepthFirstTraversal(n, traverseAll) == dftLoop(<<n>>, <<>>, traverseAll)

RECURSIVE concatTraversals(_, _)
concatTraversals(nodes, traverseAll) ==
    IF nodes = <<>> THEN <<>>
    ELSE nodeDepthFirstTraversal(nodes[1], traverseAll)
            \o concatTraversals(Tail(nodes), traverseAll)

\* HierarchicalTable.depthFirstTraversal
depthFirstTraversal(t, traverseAll) == concatTraversals(t.nodes, traverseAll)

\* a Go map read: the zero value for a missing key
mapGet(m, k) == IF k \in DOMAIN m THEN m[k] ELSE FALSE

RECURSIVE toInnerTableNode(_, _, _)
toInnerTableNode(n, parent, traversable) ==
    LET path == Append(parent.path, n.id)
        s == [path |-> path,
              traversable |-> mapGet(traversable, path),
              values |-> [c \in Columns |->
                            IF c \in n.inherited THEN parent.values[c]
                            ELSE n.values[c]],
              children |-> <<>>]
    IN [s EXCEPT !.children = [i \in 1 .. Len(n.children) |->
                        toInnerTableNode(n.children[i], s, traversable)]]

\* innerTableNode.Map with f = "set traversable"
RECURSIVE MapTraversable(_, _)
MapTraversable(n, open) ==
    [n EXCEPT !.traversable = open,
              !.children = [i \in 1 .. Len(n.children) |->
                                MapTraversable(n.children[i], open)]]

Nil == <<>>

\* HierarchicalTable.lookup: the trail of child indexes leading to the node
\* with this path, or Nil
RECURSIVE lookupFrom(_, _, _, _)
lookupFrom(children, path, i, trail) ==
    IF i > Len(path) THEN Nil
    ELSE LET hits == {k \in DOMAIN children : children[k].path[i] = path[i]}
         IN IF hits = {} THEN Nil
            ELSE LET k == CHOOSE x \in hits : \A y \in hits : x <= y
                 IN IF children[k].path = path THEN Append(trail, k)
                    ELSE lookupFrom(children[k].children, path, i + 1,
                                    Append(trail, k))

lookup(t, path) == lookupFrom(t.nodes, path, 1, <<>>)

\* the node a trail points to
RECURSIVE nodeAt(_, _)
nodeAt(children, trail) ==
    IF Len(trail) = 1 THEN children[trail[1]]
    ELSE nodeAt(children[trail[1]].children, Tail(trail))

\* the write through the pointer lookup returned
RECURSIVE writeAt(_, _, _, _)
writeAt(children, trail, open, recursive) ==
    [children EXCEPT ![trail[1]] =
        IF Len(trail) = 1
            THEN IF recursive THEN MapTraversable(@, open)
                 ELSE [@ EXCEPT !.traversable = open]
            ELSE [@ EXCEPT !.children =
                        writeAt(@, Tail(trail), open, recursive)]]

PageSize(t) == MaxInt(0, t.height - 1)

\* rows[i] in Go (0-based); an index out of range panics
inRange(t, i) == i >= 0 /\ i < Len(t.rows)

rowPath(t, i) == t.rows[i + 1]

\* a search that never finds the saved path
lastIndexOfNothing(rows, path) == nullInt

\* the index of the last row with this path, if any
lastIndexOf(rows, path) ==
    LET hits == {i \in DOMAIN rows : rows[i] = path}
    IN IF hits = {} THEN nullInt
       ELSE validInt((CHOOSE x \in hits : \A y \in hits : x >= y) - 1)

panicTable(t) == [t EXCEPT !.panic = TRUE]

computeTraversal(t) ==
    IF \/ t.pageIndex.Valid /\ ~inRange(t, t.pageIndex.Int)
       \/ t.cursorIndex.Valid /\ ~inRange(t, t.cursorIndex.Int)
    THEN panicTable(t)
    ELSE
    LET pageNodePath ==
            IF t.pageIndex.Valid THEN rowPath(t, t.pageIndex.Int) ELSE zeroPath
        cursorNodePath ==
            IF t.cursorIndex.Valid THEN rowPath(t, t.cursorIndex.Int) ELSE zeroPath
        traversal == depthFirstTraversal(t, FALSE)
        rows == [i \in 1 .. Len(traversal) |-> traversal[i].path]
        page == lastIndexOf(rows, pageNodePath)
        cursor == lastIndexOf(rows, cursorNodePath)
    IN [t EXCEPT !.rows = rows,
                 !.pageIndex = IF Len(rows) > 0 /\ ~page.Valid
                                  THEN validInt(0) ELSE page,
                 !.cursorIndex = IF Len(rows) > 0 /\ ~cursor.Valid
                                    THEN validInt(0) ELSE cursor]

\* a save that walks the visible rows only
savedTraversableVisible(t) ==
    LET all == depthFirstTraversal(t, FALSE)
    IN [p \in {all[i].path : i \in DOMAIN all} |->
            \E i \in DOMAIN all : all[i].path = p /\ all[i].traversable]

\* the path -> traversable map Replace saves; a later node overwrites an
\* earlier one with the same path
savedTraversable(t) ==
    LET all == depthFirstTraversal(t, TRUE)
        paths == {all[i].path : i \in DOMAIN all}
    IN [p \in paths |->
            all[CHOOSE i \in DOMAIN all :
                    /\ all[i].path = p
                    /\ \A j \in DOMAIN all : all[j].path = p => j <= i].traversable]

\* a nodePath.append that takes any number of ids
appendNeverPanics(nodes, len) == FALSE

\* nodePath.append panics for one of these nodes or of their descendants, the
\* path of their parent having len ids: the array of a path holds
\* maxTreeDepth of them
RECURSIVE appendPanics(_, _)
appendPanics(nodes, len) ==
    \E i \in DOMAIN nodes :
        len >= maxTreeDepth \/ appendPanics(nodes[i].children, len + 1)

Replace(t, nodes) ==
    IF appendPanics(nodes, 0) THEN panicTable(t)
    ELSE
    LET traversable == savedTraversable(t)
        inner == [i \in 1 .. Len(nodes) |->
                    toInnerTableNode(nodes[i], zeroNode, traversable)]
    IN computeTraversal([t EXCEPT !.nodes = inner])

SetTraversable(t, open, recursive) ==
    IF ~t.cursorIndex.Valid THEN t
    ELSE IF ~inRange(t, t.cursorIndex.Int) THEN panicTable(t)
    ELSE LET trail == lookup(t, rowPath(t, t.cursorIndex.Int))
             nodes == IF trail = Nil THEN t.nodes
                      ELSE writeAt(t.nodes, trail, open, recursive)
         IN computeTraversal([t EXCEPT !.nodes = nodes])

Scroll(t, amount) ==
    IF ~t.cursorIndex.Valid \/ ~t.pageIndex.Valid THEN t
    ELSE
    LET cursor == Bounded(t.cursorIndex.Int + amount, 0, Len(t.rows) - 1)
        page == t.pageIndex.Int
    IN IF cursor < page
          THEN [t EXCEPT !.cursorIndex.Int = cursor, !.pageIndex.Int = cursor]
       ELSE IF cursor > page + PageSize(t) - 1
          THEN LET scrollAmount == cursor - (page + PageSize(t) - 1)
                   newPage == Bounded(page + scrollAmount, 0, Len(t.rows) - 1)
               IN [t EXCEPT !.pageIndex.Int = newPage,
                            !.cursorIndex.Int = newPage + PageSize(t) - 1]
       ELSE [t EXCEPT !.cursorIndex.Int = cursor]

Top(t) == Scroll(t, 0 - Len(t.rows))

Bottom(t) == Scroll(t, Len(t.rows))

Resize(t, height) ==
    LET r == [t EXCEPT !.height = MaxInt(0, height)]
    IN IF PageSize(r) > 0
          THEN IF r.cursorIndex.Valid /\ r.pageIndex.Valid
                  THEN LET upperBound ==
                             Bounded(r.pageIndex.Int + PageSize(r) - 1, 0,
                                     Len(r.rows) - 1)
                       IN [r EXCEPT !.cursorIndex.Int =
                             Bounded(r.cursorIndex.Int, r.pageIndex.Int, upperBound)]
               ELSE IF Len(r.rows) > 0
                  THEN [r EXCEPT !.pageIndex = validInt(0),
                                 !.cursorIndex = validInt(0)]
               ELSE r
       ELSE [r EXCEPT !.cursorIndex = nullInt, !.pageIndex = nullInt]

\* StyledString.Contains: s is a substring of text
Contains(text, s) ==
    \E k \in 0 .. (Len(text) - Len(s)) : SubSeq(text, k + 1, k + Len(s)) = s

Modulo(a, b) == a % b

rowMatches(t, i, s) ==
    LET n == nodeAt(t.nodes, lookup(t, rowPath(t, i)))
    IN \E c \in Columns : Contains(n.values[c], s)

\* the loop of ScrollToMatch from row i on; `left` counts the rows not yet
\* visited: a loop that has visited every row without meeting the cursor
\* never ends
RECURSIVE matchLoop(_, _, _, _, _)
matchLoop(t, s, step, i, left) ==
    IF i = t.cursorIndex.Int THEN [t |-> t, found |-> FALSE, hang |-> FALSE]
    ELSE IF rowMatches(t, i, s)
        THEN [t |-> Scroll(t, i - t.cursorIndex.Int), found |-> TRUE,
              hang |-> FALSE]
    ELSE IF left = 0 THEN [t |-> t, found |-> FALSE, hang |-> TRUE]
    ELSE matchLoop(t, s, step, Modulo(i + step, Len(t.rows)), left - 1)

\* a search that walks upward whatever it is asked
ScrollToMatchUpward(t, s, ascending) ==
    IF ~t.cursorIndex.Valid \/ Len(t.rows) = 0
        THEN [t |-> t, found |-> FALSE, hang |-> FALSE]
    ELSE matchLoop(t, s, 1, Modulo(t.cursorIndex.Int + 1, Len(t.rows)),
                   Len(t.rows))

ScrollToMatch(t, s, ascending) ==
    IF ~t.cursorIndex.Valid \/ Len(t.rows) = 0
        THEN [t |-> IF t.cursorIndex.Valid THEN panicTable(t) ELSE t,
              found |-> FALSE, hang |-> FALSE]
    ELSE LET step == IF ascending THEN 1 ELSE 0 - 1
         IN matchLoop(t, s, step, Modulo(t.cursorIndex.Int + step, Len(t.rows)),
                      Len(t.rows))

NewHierarchicalTable(nodes, height) ==
    Replace([nodes |-> <<>>, rows |-> <<>>, pageIndex |-> nullInt,
             cursorIndex |-> nullInt, height |-> height, panic |-> FALSE],
            nodes)


(***************************************************************************)
(* The controller.                                                         *)
(* Refs and prompt inputs are sequences of characters.  Errors are named:  *)
(* "canceled" (context.Canceled), "unknownref" (ErrUnknownGitReference),   *)
(* "exit" (ErrExit), "nolog" (ErrNoLogHere), "other"; "nil" is no error.   *)
(***************************************************************************)
Runes == {"q", "/", "g", "?", "u", "v", "b", "n", "j", "o", "B"}
Keys == Runes \cup {"Enter", "Esc"}
ScreenHeights == {InitialHeight, InitialHeight + 2}

keyEvent(k) == [type |-> "key", key |-> k, h |-> 0]
resizeEvent(h) == [type |-> "resize", key |-> "", h |-> h]
NoEvent == [type |-> "none", key |-> "", h |-> 0]
Events == {keyEvent(k) : k \in Keys} \cup {resizeEvent(h) : h \in ScreenHeights}

\* process hands every key but Enter to the prompt that has the focus, and
\* a prompt takes every key but Esc as text: two keys stand for the text, a
\* ref that exists and a text that is no ref
PromptKeys == {"B", "q", "Enter", "Esc"}

\* the events the terminal delivers in a focus
EventsIn(f) ==
    IF f \in {"ref", "search"}
        THEN {keyEvent(k) : k \in PromptKeys} \cup {resizeEvent(h) : h \in ScreenHeights}
        ELSE Events

\* the events of a session that only changes the ref, reads a log and quits
SessionKeys(f) ==
    CASE f = "table" -> {"q", "g", "u", "v"}
      [] f = "ref" -> PromptKeys
      [] OTHER -> {}

SessionEvents(f) == {keyEvent(k) : k \in SessionKeys(f)} \cup {resizeEvent(InitialHeight)}

InitialRef == <<"A">>
KnownRefs == {<<"A">>, <<"B">>}

\* cache.Pipelines(ref): the pipelines saved for the ref, in key order; each
\* pipeline has one job
pipelineNode(ref, i) ==
    tableNode(<<ref, i>>, ref, <<tableNode(<<"job", 1>>, <<"j">>, <<>>)>>)

Pipelines(db, ref) ==
    IF ref \in DOMAIN db THEN [i \in 1 .. db[ref] |-> pipelineNode(ref, i)]
    ELSE <<>>

\* tui.Command: Process types a character or aborts, Focus starts afresh.
\* The input is read on Enter only, and Focus comes before any typing: what
\* a prompt holds once it has lost the focus is never read, and is not kept.
commandBlur(cmd) == [cmd EXCEPT !.input = <<>>]

commandProcess(cmd, ev) ==
    IF ev.key \in Runes /\ Len(cmd.input) < MaxInput
        THEN [cmd EXCEPT !.input = Append(@, ev.key)]
    ELSE IF ev.key = "Esc" THEN [cmd EXCEPT !.input = <<>>]
    ELSE cmd

commandFocus(cmd) == [cmd EXCEPT !.input = <<>>]

\* HierarchicalTable.Process: the table's own keys
tableProcess(t, ev) ==
    CASE ev.key = "j" -> Scroll(t, 1)
      [] ev.key = "o" -> SetTraversable(t, TRUE, FALSE)
      [] OTHER -> t

ActiveNodePath(t) ==
    IF ~t.cursorIndex.Valid THEN <<>> ELSE rowPath(t, t.cursorIndex.Int)

\* the third result of activeStepPath
activeStepPathExists(t) == Len(ActiveNodePath(t)) > 0

writeStatus(c, msg) == [c EXCEPT !.status = msg]

\* the lines of the header: none before a commit is known
headerContent == <<>>

\* the height resize gives the table
tableHeight(height) ==
    LET header == MinInt(MinInt(Len(headerContent) + 2, 9), height)
    IN MaxInt(0, height - header - 2)

resize(c, t, height) ==
    [c |-> [c EXCEPT !.height = MaxInt(height, 0)],
     t |-> Resize(t, tableHeight(MaxInt(height, 0)))]

refresh(c, t, db) == resize(c, Replace(t, Pipelines(db, c.ref)), c.height)

\* a loop that never adopts the ref it received
setRefKeepsRef(c, t, db, ref) ==
    [c |-> c, t |-> Replace(t, Pipelines(db, c.ref))]

setRef(c, t, db, ref) ==
    [c |-> [c EXCEPT !.ref = ref], t |-> Replace(t, Pipelines(db, c.ref))]

nextMatch(c, t, ascending) ==
    IF c.tableSearch # <<>>
        THEN LET r == ScrollToMatch(t, c.tableSearch, ascending)
             IN [c |-> IF r.found THEN c ELSE writeStatus(c, "nomatch"),
                 t |-> r.t]
        ELSE [c |-> c, t |-> t]

NoSpawn == [src |-> "none", pc |-> "none", val |-> <<>>]

\* a prompt that sends whatever it holds, nothing included
refRequestAlways(input) == [src |-> "prompt", pc |-> "send", val |-> input]

\* Enter in the ref prompt: the goroutine sending the input on refc, started
\* only for an input that is not empty
refRequest(input) ==
    IF input # <<>> THEN [src |-> "prompt", pc |-> "send", val |-> input]
    ELSE NoSpawn

\* a focus machine where any key closes the help screen
focusAfterKeyHelpAnyKey(f, key) ==
    CASE f = "help" -> "table"
      [] f = "ref" -> IF key \in {"Enter", "Esc"} THEN "table" ELSE f
      [] f = "search" -> IF key \in {"Enter", "Esc"} THEN "table" ELSE f
      [] f = "table" ->
            CASE key = "g" -> "ref"
              [] key = "/" -> "search"
              [] key = "?" -> "help"
              [] OTHER -> f

\* the assignments of process to c.focus
focusAfterKey(f, key) ==
    CASE f = "help" -> IF key = "q" THEN "table" ELSE f
      [] f = "ref" -> IF key \in {"Enter", "Esc"} THEN "table" ELSE f
      [] f = "search" -> IF key \in {"Enter", "Esc"} THEN "table" ELSE f
      [] f = "table" ->
            CASE key = "g" -> "ref"
              [] key = "/" -> "search"
              [] key = "?" -> "help"
              [] OTHER -> f

\* a quit key honoured in every focus but the prompts
keyErrorQuitInHelp(f, key, t, env) ==
    IF f \in {"table", "help"} /\ key = "q" THEN "exit"
    ELSE IF f = "table" /\ key = "b" /\ activeStepPathExists(t) /\ env = "fail"
        THEN "other"
    ELSE IF f = "table" /\ key = "v" /\ ~activeStepPathExists(t) THEN "nolog"
    ELSE "nil"

\* the error process returns for a key without waiting: ErrExit on 'q' in
\* the table, the browser's error on 'b', ErrNoLogHere on 'v' without an
\* active row
keyError(f, key, t, env) ==
    IF f = "table" /\ key = "q" THEN "exit"
    ELSE IF f = "table" /\ key = "b" /\ activeStepPathExists(t) /\ env = "fail"
        THEN "other"
    ELSE IF f = "table" /\ key = "v" /\ ~activeStepPathExists(t) THEN "nolog"
    ELSE "nil"

\* Controller.process up to its return or up to the call of cache.Log.
\* env is what the browser launch does.  The result: the controller, the
\* table, the error returned, the goroutine spawned, and where the UI task
\* is next ("log": inside cache.Log).
process(c0, t, ev, env) ==
    LET c == writeStatus(c0, "")
        same == [c |-> c, t |-> t, ret |-> "nil", spawn |-> NoSpawn,
                 pc |-> "select"]
        f == c.focus
        key == ev.key
        moved == [c EXCEPT !.focus = focusAfterKey(f, key)]
    IN
    IF ev.type = "resize"
        THEN [same EXCEPT !.c = resize(c, t, ev.h).c, !.t = resize(c, t, ev.h).t]
    ELSE IF keyError(f, key, t, env) # "nil"
        THEN [same EXCEPT !.ret = keyError(f, key, t, env),
                          !.c = IF key = "v" THEN writeStatus(c, "fetching") ELSE c]
    ELSE
    CASE f = "help" -> [same EXCEPT !.c = moved]
      [] f = "ref" ->
            IF key = "Enter"
                THEN [same EXCEPT
                        !.c = [moved EXCEPT !.refcmd = commandBlur(@)],
                        !.spawn = refRequest(c.refcmd.input)]
                ELSE [same EXCEPT
                        !.c = [moved EXCEPT !.refcmd = commandProcess(@, ev)]]
      [] f = "search" ->
            IF key = "Enter"
                THEN LET m == nextMatch([c EXCEPT !.tableSearch = c.searchcmd.input],
                                        t, TRUE)
                     IN [same EXCEPT
                            !.c = [m.c EXCEPT !.focus = focusAfterKey(f, key),
                                              !.searchcmd = commandBlur(@)],
                            !.t = m.t]
                ELSE [same EXCEPT
                        !.c = [moved EXCEPT !.searchcmd = commandProcess(@, ev)]]
      [] f = "table" ->
            CASE key = "b" -> same
              [] key = "g" ->
                    [same EXCEPT !.c = [moved EXCEPT !.refcmd = commandFocus(@)]]
              [] key \in {"n", "Enter"} ->
                    [same EXCEPT !.c = nextMatch(c, t, TRUE).c,
                                 !.t = nextMatch(c, t, TRUE).t]
              [] key = "/" ->
                    [same EXCEPT !.c = [moved EXCEPT !.searchcmd = commandFocus(@)]]
              [] key = "u" ->
                    [same EXCEPT !.spawn = [src |-> "u", pc |-> "start",
                                            val |-> <<>>]]
              [] key = "?" -> [same EXCEPT !.c = moved]
              [] key = "v" ->
                    [same EXCEPT !.c = writeStatus(c, "fetching"), !.pc = "log"]
              [] OTHER -> [same EXCEPT !.t = tableProcess(t, ev)]

(***************************************************************************)
(* The table driven alone.                                                 *)
(***************************************************************************)
op(name, arg) == [op |-> name, arg |-> arg]

ctlVars == <<ctl, run, eventc, senders, monitors, cache, ctxDone, requests>>

\* NewController
newController(ref, height) ==
    [ref |-> ref, focus |-> "table", height |-> height, status |-> "",
     refcmd |-> [input |-> <<>>, completions |-> {}],
     searchcmd |-> [input |-> <<>>], tableSearch |-> <<>>]

InitTable ==
    /\ \E f \in InputForests, h \in Heights : table = NewHierarchicalTable(f, h)
    /\ last = op("New", 0)
    /\ ctl = newController(InitialRef, 0)
    /\ run = [pc |-> "returned", tmpRef |-> <<>>, err |-> "nil"]
    /\ eventc = FALSE
    /\ senders = <<>>
    /\ monitors = <<>>
    /\ cache = [r \in KnownRefs |-> 0]
    /\ ctxDone = FALSE
    /\ requests = 0

TReplace ==
    /\ ~table.panic
    /\ UNCHANGED ctlVars
    /\ \E f \in InputForests : table' = Replace(table, f)
    /\ last' = op("Replace", table.cursorIndex)

TSetTraversable ==
    /\ ~table.panic
    /\ UNCHANGED ctlVars
    /\ \E open \in BOOLEAN, recursive \in BOOLEAN :
          /\ table' = SetTraversable(table, open, recursive)
          /\ last' = op("SetTraversable", <<open, recursive>>)

TScroll ==
    /\ ~table.panic
    /\ UNCHANGED ctlVars
    /\ \E d \in Deltas :
          /\ table' = Scroll(table, d)
          /\ last' = op("Scroll", d)

TTop ==
    /\ ~table.panic
    /\ UNCHANGED ctlVars
    /\ table' = Top(table)
    /\ last' = op("Top", 0)

TBottom ==
    /\ ~table.panic
    /\ UNCHANGED ctlVars
    /\ table' = Bottom(table)
    /\ last' = op("Bottom", 0)

TResize ==
    /\ ~table.panic
    /\ UNCHANGED ctlVars
    /\ \E h \in Heights :
          /\ table' = Resize(table, h)
          /\ last' = op("Resize", h)

\* the strings searched: the empty one, the texts of the nodes, one longer
\* than any text
Needles == {<<>>} \cup {<<i>> : i \in IDs} \cup {<<1, 1>>}

\* ScrollToMatch; a call whose loop never ends stops the table as a panic
\* does
TScrollToMatch ==
    /\ ~table.panic
    /\ UNCHANGED ctlVars
    /\ \E s \in Needles, ascending \in BOOLEAN :
          LET r == ScrollToMatch(table, s, ascending)
          IN /\ table' = IF r.hang THEN panicTable(table) ELSE r.t
             /\ last' = op("ScrollToMatch",
                           [s |-> s, ascending |-> ascending, found |-> r.found,
                            from |-> table.cursorIndex])

NextTable ==
    \/ TReplace
    \/ TSetTraversable
    \/ TScroll
    \/ TTop
    \/ TBottom
    \/ TResize

vars == <<table, last, ctl, run, eventc, senders, monitors, cache, ctxDone, requests>>

SpecTable == InitTable /\ [][NextTable]_vars

(***************************************************************************)
(* The search of the table driven alone, over larger forests that are not  *)
(* replaced: folds, scrolls and searches.                                  *)
(***************************************************************************)
InitSearch ==
    /\ \E f \in Forests(MaxSearchNodes), h \in Heights :
          table = NewHierarchicalTable(f, h)
    /\ last = op("New", 0)
    /\ ctl = newController(InitialRef, 0)
    /\ run = [pc |-> "returned", tmpRef |-> <<>>, err |-> "nil"]
    /\ eventc = FALSE
    /\ senders = <<>>
    /\ monitors = <<>>
    /\ cache = [r \in KnownRefs |-> 0]
    /\ ctxDone = FALSE
    /\ requests = 0

NextSearch ==
    \/ TSetTraversable
    \/ TScroll
    \/ TScrollToMatch

SpecSearch == InitSearch /\ [][NextSearch]_vars

(***************************************************************************)
(* Replace driven alone over forests whose nodes may list the column in    *)
(* InheritedValues() and may have an empty value of their own.             *)
(***************************************************************************)
InheritTexts == {<<>>} \cup {<<i>> : i \in IDs}

RECURSIVE InheritForests(_)
InheritForests(n) ==
    IF n = 0 THEN {<<>>}
    ELSE {<<>>} \cup UNION {
            { <<[tableNode(i, text, c) EXCEPT !.inherited = inh]>> \o r :
                r \in { x \in InheritForests(n - 1 - Size(c)) :
                            \A j \in DOMAIN x : x[j].id # i } }
            : i \in IDs, text \in InheritTexts, inh \in SUBSET Columns,
              c \in InheritForests(n - 1) }

InitInherit ==
    /\ \E f \in InheritForests(MaxNodes), h \in Heights :
          /\ table = NewHierarchicalTable(f, h)
          /\ last = op("New", f)
    /\ ctl = newController(InitialRef, 0)
    /\ run = [pc |-> "returned", tmpRef |-> <<>>, err |-> "nil"]
    /\ eventc = FALSE
    /\ senders = <<>>
    /\ monitors = <<>>
    /\ cache = [r \in KnownRefs |-> 0]
    /\ ctxDone = FALSE
    /\ requests = 0

TReplaceInherited ==
    /\ ~table.panic
    /\ UNCHANGED ctlVars
    /\ \E f \in InheritForests(MaxNodes) :
          /\ table' = Replace(table, f)
          /\ last' = op("Replace", f)

NextInherit ==
    \/ TReplaceInherited
    \/ TSetTraversable

SpecInherit == InitInherit /\ [][NextInherit]_vars

(***************************************************************************)
(* The widths of the columns.  The table record gets two more fields:      *)
(* conf, the Column of each column (the width of its Header, MaxWidth,     *)
(* TreePrefix), and columnWidth.  The table is driven alone over forests   *)
(* whose texts have several widths.                                        *)
(***************************************************************************)
HeaderWidths == {2, 4}
MaxWidths == {3}
ColumnTexts == {<<1>>, <<2, 2, 2>>}

ColumnConfigurations ==
    [Columns -> [Header : HeaderWidths, MaxWidth : MaxWidths, TreePrefix : BOOLEAN]]

RECURSIVE WideForests(_)
WideForests(n) ==
    IF n = 0 THEN {<<>>}
    ELSE {<<>>} \cup UNION {
            { <<tableNode(i, text, c)>> \o r :
                r \in { x \in WideForests(n - 1 - Size(c)) :
                            \A j \in DOMAIN x : x[j].id # i } }
            : i \in IDs, text \in ColumnTexts, c \in WideForests(n - 1) }

\* runewidth.StringWidth(row.prefix) with the prefix setPrefix gives: one
\* cell for a top-level node, four more for each level below
prefixWidth(path) == 1 + 4 * (Len(path) - 1)

\* the node of row i (from 0)
rowNode(t, i) == nodeAt(t.nodes, lookup(t, rowPath(t, i)))

\* the width a row asks of a column
rowWidth(t, i, id) ==
    Len(rowNode(t, i).values[id])
        + (IF t.conf[id].TreePrefix THEN prefixWidth(rowPath(t, i)) ELSE 0)

RECURSIVE maxOver(_, _, _, _)
maxOver(t, id, i, w) ==
    IF i >= Len(t.rows) THEN w
    ELSE maxOver(t, id, i + 1, MaxInt(w, rowWidth(t, i, id)))

\* widths taken from the rows alone, forgetting the stored ones
columnWidthsOfRows(t) ==
    IF t.panic THEN t
    ELSE [t EXCEPT !.columnWidth =
                [id \in Columns |-> maxOver(t, id, 0, t.conf[id].Header)]]

\* the last loop of computeTraversal
columnWidths(t) ==
    IF t.panic THEN t
    ELSE [t EXCEPT !.columnWidth =
                [id \in Columns |-> maxOver(t, id, 0, t.columnWidth[id])]]

\* NewHierarchicalTable with its ColumnConfiguration
NewTableWithColumns(conf, nodes, height) ==
    columnWidths(
        Replace([nodes |-> <<>>, rows |-> <<>>, pageIndex |-> nullInt,
                 cursorIndex |-> nullInt, height |-> height, panic |-> FALSE,
                 conf |-> conf,
                 columnWidth |-> [id \in Columns |-> MaxInt(0, conf[id].Header)]],
                nodes))

\* the width styledString fits a column to
styledWidth(t, id) == MinInt(t.columnWidth[id], t.conf[id].MaxWidth)

InitColumns ==
    /\ \E conf \in ColumnConfigurations, f \in WideForests(MaxNodes), h \in Heights :
          table = NewTableWithColumns(conf, f, h)
    /\ last = op("New", 0)
    /\ ctl = newController(InitialRef, 0)
    /\ run = [pc |-> "returned", tmpRef |-> <<>>, err |-> "nil"]
    /\ eventc = FALSE
    /\ senders = <<>>
    /\ monitors = <<>>
    /\ cache = [r \in KnownRefs |-> 0]
    /\ ctxDone = FALSE
    /\ requests = 0

CReplace ==
    /\ ~table.panic
    /\ UNCHANGED ctlVars
    /\ \E f \in WideForests(MaxNodes) :
          table' = columnWidths(Replace(table, f))
    /\ last' = op("Replace", 0)

CSetTraversable ==
    /\ ~table.panic
    /\ UNCHANGED ctlVars
    /\ \E open \in BOOLEAN, recursive \in BOOLEAN :
          /\ table' = columnWidths(SetTraversable(table, open, recursive))
          /\ last' = op("SetTraversable", <<open, recursive>>)

NextColumns ==
    \/ CReplace
    \/ CSetTraversable
    \/ TScroll
    \/ TResize

SpecColumns == InitColumns /\ [][NextColumns]_vars

(***************************************************************************)
(* The prefixes of the rows.  A prefix is a sequence of glyphs, written    *)
(* here " " "-" "+" for themselves, "L" for the corner of a last sibling,  *)
(* "T" for the tee of another sibling, "_" for the horizontal line and     *)
(* "|" for the vertical bar.  In the specification below every node of     *)
(* the table has one more field, prefix, set as computeTraversal sets it.  *)
(***************************************************************************)
MaxPrefixNodes == 4

\* a mark that looks at the fold alone
foldMarkOpenOnly(n) ==
    IF n.traversable THEN <<"_", " ">> ELSE <<"+", " ">>

\* setPrefix: what follows the connector of a node below the top level
foldMark(n) ==
    IF Len(n.children) = 0 \/ n.traversable THEN <<"_", " ">> ELSE <<"+", " ">>

\* setPrefix handing down a bar for the child's own place among its siblings
RECURSIVE setPrefixOwnPlace(_, _, _)
setPrefixOwnPlace(n, parent, isLastChild) ==
    LET prefix ==
            IF parent = <<>>
                THEN IF Len(n.children) = 0 THEN <<" ">>
                     ELSE IF n.traversable THEN <<"-">>
                     ELSE <<"+">>
                ELSE parent \o (IF isLastChild THEN <<"L", "_">> ELSE <<"T", "_">>)
                            \o foldMark(n)
        below(childIsLastChild) ==
            IF parent = <<>> THEN <<" ">>
            ELSE IF childIsLastChild THEN parent \o <<" ", " ", " ", " ">>
            ELSE parent \o <<"|", " ", " ", " ">>
    IN ("prefix" :> prefix) @@
       [n EXCEPT !.children = [i \in 1 .. Len(n.children) |->
            setPrefixOwnPlace(n.children[i], below(i = Len(n.children)),
                              i = Len(n.children))]]

RECURSIVE setPrefix(_, _, _)
setPrefix(n, parent, isLastChild) ==
    LET prefix ==
            IF parent = <<>>
                THEN IF Len(n.children) = 0 THEN <<" ">>
                     ELSE IF n.traversable THEN <<"-">>
                     ELSE <<"+">>
                ELSE parent \o (IF isLastChild THEN <<"L", "_">> ELSE <<"T", "_">>)
                            \o foldMark(n)
        below ==
            IF parent = <<>> THEN <<" ">>
            ELSE IF isLastChild THEN parent \o <<" ", " ", " ", " ">>
            ELSE parent \o <<"|", " ", " ", " ">>
    IN ("prefix" :> prefix) @@
       [n EXCEPT !.children = [i \in 1 .. Len(n.children) |->
            setPrefix(n.children[i], below, i = Len(n.children))]]

\* computeTraversal: "Update node prefixes"
prefixes(t) ==
    IF t.panic THEN t
    ELSE [t EXCEPT !.nodes = [i \in 1 .. Len(t.nodes) |->
                                setPrefix(t.nodes[i], <<>>, FALSE)]]

\* the forests in which the k-th sibling has id k: one forest for each shape
RECURSIVE NumberedSiblings(_)
NumberedSiblings(forest) ==
    \A i \in DOMAIN forest :
        forest[i].id = i /\ NumberedSiblings(forest[i].children)

PrefixForests == {f \in Forests(MaxPrefixNodes) : NumberedSiblings(f)}

InitPrefix ==
    /\ \E f \in PrefixForests, h \in Heights :
          table = prefixes(NewHierarchicalTable(f, h))
    /\ last = op("New", 0)
    /\ ctl = newController(InitialRef, 0)
    /\ run = [pc |-> "returned", tmpRef |-> <<>>, err |-> "nil"]
    /\ eventc = FALSE
    /\ senders = <<>>
    /\ monitors = <<>>
    /\ cache = [r \in KnownRefs |-> 0]
    /\ ctxDone = FALSE
    /\ requests = 0

PReplace ==
    /\ ~table.panic
    /\ UNCHANGED ctlVars
    /\ \E f \in PrefixForests :
          table' = prefixes(Replace(table, f))
    /\ last' = op("Replace", 0)

PSetTraversable ==
    /\ ~table.panic
    /\ UNCHANGED ctlVars
    /\ \E open \in BOOLEAN, recursive \in BOOLEAN :
          /\ table' = prefixes(SetTraversable(table, open, recursive))
          /\ last' = op("SetTraversable", <<open, recursive>>)

NextPrefix ==
    \/ PReplace
    \/ PSetTraversable
    \/ TScroll

SpecPrefix == InitPrefix /\ [][NextPrefix]_vars

(***************************************************************************)
(* The text of a log on its way to the pager.  A log is a sequence of      *)
(* characters: "E" stands for ESC (0x1b), "R" for carriage return, "N" for *)
(* line feed, "0" for a digit, "m" for a lower-case letter, "[" for        *)
(* itself.  The two regular expressions are applied as Go's regexp does:   *)
(* matches are taken from left to right, never overlapping, the leftmost   *)
(* one first and each star as long as the rest can still match.            *)
(***************************************************************************)
MaxLog == 6

LogAlphabet == {"E", "[", "0", "m", "R", "N"}

\* the classes of deleteANSIEscapeSequence over the alphabet:
\* [@-_] holds '[';  [0-?] holds the digits;  [ -/] holds none of them;
\* [@-~] holds '[' and the letters
AtToUnderscore == {"["}
ZeroToQuestion == {"0"}
SpaceToSlash == {}
AtToTilde == {"[", "m"}

RECURSIVE skipWhile(_, _, _)
skipWhile(x, i, class) ==
    IF i <= Len(x) /\ x[i] \in class THEN skipWhile(x, i + 1, class) ELSE i

\* the length of the match of \x1b[@-_][0-?]*[ -/]*[@-~] at the head of x,
\* or 0.  The three last classes are disjoint, so a shorter star never
\* makes a match that the longest one does not.
escapeSequenceAt(x) ==
    IF Len(x) >= 3 /\ x[1] = "E" /\ x[2] \in AtToUnderscore
    THEN LET i == skipWhile(x, 3, ZeroToQuestion)
             j == skipWhile(x, i, SpaceToSlash)
         IN IF j <= Len(x) /\ x[j] \in AtToTilde THEN j ELSE 0
    ELSE 0

\* deleteANSIEscapeSequence.ReplaceAllString(log, "")
RECURSIVE deleteANSIEscapeSequence(_)
deleteANSIEscapeSequence(log) ==
    IF log = <<>> THEN <<>>
    ELSE LET e == escapeSequenceAt(log)
         IN IF e > 0 THEN deleteANSIEscapeSequence(SubSeq(log, e + 1, Len(log)))
            ELSE <<log[1]>> \o deleteANSIEscapeSequence(Tail(log))

\* .*\r([^\r\n]) on one line (a text without line feed): the star takes
\* the line up to its last carriage return that a character other than a
\* carriage return follows, and the match is replaced by that character
collapseLine(line) ==
    LET K == {k \in 1 .. (Len(line) - 1) : line[k] = "R" /\ line[k + 1] # "R"}
    IN IF K = {} THEN line
       ELSE SubSeq(line, (CHOOSE k \in K : \A j \in K : j <= k) + 1, Len(line))

\* deleteUntilCarriageReturn.ReplaceAllString(log, "$1"): '.' does not match
\* a line feed, so every match lies within one line
RECURSIVE deleteUntilCarriageReturn(_)
deleteUntilCarriageReturn(log) ==
    LET N == {k \in DOMAIN log : log[k] = "N"}
    IN IF N = {} THEN collapseLine(log)
       ELSE LET n == CHOOSE k \in N : \A j \in N : k <= j
            IN collapseLine(SubSeq(log, 1, n - 1)) \o <<"N">>
                    \o deleteUntilCarriageReturn(SubSeq(log, n + 1, Len(log)))

\* viewLog: what is written to the pager's stdin for this log
postprocess(log) == deleteUntilCarriageReturn(deleteANSIEscapeSequence(log))

RECURSIVE Logs(_)
Logs(n) ==
    IF n = 0 THEN {<<>>}
    ELSE LET shorter == Logs(n - 1)
         IN shorter \cup {Append(x, c) : x \in {y \in shorter : Len(y) = n - 1},
                                         c \in LogAlphabet}

InitLog ==
    /\ \E log \in Logs(MaxLog) : last = op("Log", log)
    /\ table = NewHierarchicalTable(<<>>, 0)
    /\ ctl = newController(InitialRef, 0)
    /\ run = [pc |-> "returned", tmpRef |-> <<>>, err |-> "nil"]
    /\ eventc = FALSE
    /\ senders = <<>>
    /\ monitors = <<>>
    /\ cache = [r \in KnownRefs |-> 0]
    /\ ctxDone = FALSE
    /\ requests = 0

\* viewLog from the return of cache.Log to the call of the pager
ViewLogText ==
    /\ last.op = "Log"
    /\ last' = op("Exec", [log |-> last.arg, stdin |-> postprocess(last.arg)])
    /\ UNCHANGED <<table, ctl, run, eventc, senders, monitors, cache, ctxDone, requests>>

NextLog == ViewLogText

SpecLog == InitLog /\ [][NextLog]_vars

(***************************************************************************)
(* utils.RepositorySlugFromURL.  A URL is a sequence of pieces of text,    *)
(* each piece standing for the characters it spells: "git@", "https://",   *)
(* "http://", ":", "/", ".git", and names without any of these.            *)
(***************************************************************************)
Schemes == {"https://", "http://"}
Hosts == {"github.com", "gitlab.com"}
Owner == "nbedos"
Repo == "citop"

\* the URLs tried: a prefix or none, a host, ':' or '/' after it, a path of
\* one, two or four components, ".git" at the end or not
URLShapes ==
    [prefix : {"git@", "none"} \cup Schemes, host : Hosts, sep : {":", "/"},
     path : {<<Owner>>, <<Owner, Repo>>, <<Owner, Repo, "tree", "master">>},
     git : BOOLEAN]

RECURSIVE JoinStrings(_, _)
JoinStrings(components, sep) ==
    IF components = <<>> THEN <<>>
    ELSE IF Len(components) = 1 THEN components[1]
    ELSE components[1] \o <<sep>> \o JoinStrings(Tail(components), sep)

urlString(u) ==
    (IF u.prefix = "none" THEN <<>> ELSE <<u.prefix>>)
        \o <<u.host, u.sep>>
        \o JoinStrings([i \in DOMAIN u.path |-> <<u.path[i]>>], "/")
        \o (IF u.git THEN <<".git">> ELSE <<>>)

URLs == {urlString(u) : u \in URLShapes}

HasPrefix(s, piece) == s # <<>> /\ s[1] = piece
TrimPrefix(s, piece) == IF HasPrefix(s, piece) THEN Tail(s) ELSE s
TrimSuffix(s, piece) ==
    IF s # <<>> /\ s[Len(s)] = piece THEN SubSeq(s, 1, Len(s) - 1) ELSE s

\* strings.Replace(s, old, new, 1)
ReplaceFirst(s, old, new) ==
    LET K == {k \in DOMAIN s : s[k] = old}
    IN IF K = {} THEN s
       ELSE [s EXCEPT ![CHOOSE k \in K : \A j \in K : k <= j] = new]

\* strings.Split(s, sep)
RECURSIVE Split(_, _)
Split(s, sep) ==
    LET K == {k \in DOMAIN s : s[k] = sep}
    IN IF K = {} THEN <<s>>
       ELSE LET k == CHOOSE x \in K : \A j \in K : x <= j
            IN <<SubSeq(s, 1, k - 1)>> \o Split(SubSeq(s, k + 1, Len(s)), sep)

\* url.Parse of the standard library, for these URLs: [err, Path].
\* After "scheme://" the authority runs to the first '/', and a ':' in it
\* must be followed by a port number; without "://" a ':' before the first
\* '/' ends a scheme, what follows has no leading '/' and the Path is empty;
\* else the whole string is the Path.
urlParse(s) ==
    LET slashes == {k \in DOMAIN s : s[k] = "/"}
        slash == IF slashes = {} THEN Len(s) + 1
                 ELSE CHOOSE k \in slashes : \A j \in slashes : k <= j
        colon == \E k \in 1 .. (slash - 1) : s[k] = ":"
    IN IF s # <<>> /\ s[1] \in Schemes
          THEN IF colon THEN [err |-> TRUE, Path |-> <<>>]
               ELSE [err |-> FALSE, Path |-> SubSeq(s, slash, Len(s))]
       ELSE IF colon THEN [err |-> FALSE, Path |-> <<>>]
       ELSE [err |-> FALSE, Path |-> s]

RepositorySlugFromURL(repositoryURL) ==
    LET rewritten ==
            IF HasPrefix(repositoryURL, "git@")
            THEN ReplaceFirst(TrimSuffix(TrimPrefix(repositoryURL, "git@"), ".git"),
                              ":", "/")
            ELSE repositoryURL
        u == urlParse(rewritten)
        components == Split(u.Path, "/")
    IN IF u.err THEN [slug |-> <<>>, err |-> TRUE]
       ELSE IF Len(components) < 3 THEN [slug |-> <<>>, err |-> TRUE]
       ELSE [slug |-> JoinStrings(SubSeq(components, 2, 3), "/"), err |-> FALSE]

InitURL ==
    /\ \E s \in URLs : last = op("URL", s)
    /\ table = NewHierarchicalTable(<<>>, 0)
    /\ ctl = newController(InitialRef, 0)
    /\ run = [pc |-> "returned", tmpRef |-> <<>>, err |-> "nil"]
    /\ eventc = FALSE
    /\ senders = <<>>
    /\ monitors = <<>>
    /\ cache = [r \in KnownRefs |-> 0]
    /\ ctxDone = FALSE
    /\ requests = 0

SlugFromURL ==
    /\ last.op = "URL"
    /\ last' = op("Slug", [url |-> last.arg, out |-> RepositorySlugFromURL(last.arg)])
    /\ UNCHANGED <<table, ctl, run, eventc, senders, monitors, cache, ctxDone, requests>>

NextURL == SlugFromURL

SpecURL == InitURL /\ [][NextURL]_vars

(***************************************************************************)
(* ProvidersConfiguration.Providers: the interval of the rate limiter of   *)
(* one provider entry.  max_requests_per_second is a float64; it is given  *)
(* here in tenths (25 is 2.5 a second), 0 for an option left unset.        *)
(* Durations are int64 nanoseconds.                                        *)
(***************************************************************************)
MaxRateTenths == 25

Second == 1000000000

\* the vendors whose entries have the option
Vendors == {"gitlab", "circleci", "appveyor", "travis", "azure"}

\* time.Duration(f) for a float64 f >= 0 given in tenths: the fraction is cut
DurationOf(tenths) == tenths \div 10

\* rateLimit as Providers computes it; an integer division by zero panics
rateLimit(vendor, tenths) ==
    IF tenths > 0
        THEN IF DurationOf(tenths) = 0 THEN [panic |-> TRUE, d |-> 0]
             ELSE [panic |-> FALSE, d |-> Second \div DurationOf(tenths)]
        ELSE [panic |-> FALSE,
              d |-> IF vendor = "travis" THEN Second \div 20 ELSE Second \div 10]

InitRate ==
    /\ \E vendor \in Vendors, tenths \in 0 .. MaxRateTenths :
          last = op("Conf", [vendor |-> vendor, tenths |-> tenths])
    /\ table = NewHierarchicalTable(<<>>, 0)
    /\ ctl = newController(InitialRef, 0)
    /\ run = [pc |-> "returned", tmpRef |-> <<>>, err |-> "nil"]
    /\ eventc = FALSE
    /\ senders = <<>>
    /\ monitors = <<>>
    /\ cache = [r \in KnownRefs |-> 0]
    /\ ctxDone = FALSE
    /\ requests = 0

\* Providers for one entry of the configuration
BuildProvider ==
    /\ last.op = "Conf"
    /\ last' = op("Providers", [conf |-> last.arg,
                                out |-> rateLimit(last.arg.vendor, last.arg.tenths)])
    /\ UNCHANGED <<table, ctl, run, eventc, senders, monitors, cache, ctxDone, requests>>

NextRate == BuildProvider

SpecRate == InitRate /\ [][NextRate]_vars

(***************************************************************************)
(* The paths of the nodes.  The table is driven alone over chains, forests *)
(* in which every node has one child down to some depth, with a leaf       *)
(* beside the chain or without, to one level more than a path can hold.    *)
(***************************************************************************)
MaxChainDepth == 11

RECURSIVE Chain(_)
Chain(depth) ==
    IF depth = 0 THEN <<>>
    ELSE <<tableNode(1, <<1>>, Chain(depth - 1))>>

ChainForests ==
    {Chain(d) : d \in 0 .. MaxChainDepth}
        \cup {Chain(d) \o <<tableNode(2, <<2>>, <<>>)>> : d \in 0 .. MaxChainDepth}

InitPaths ==
    /\ \E f \in ChainForests, h \in Heights :
          /\ table = NewHierarchicalTable(f, h)
          /\ last = op("New", f)
    /\ ctl = newController(InitialRef, 0)
    /\ run = [pc |-> "returned", tmpRef |-> <<>>, err |-> "nil"]
    /\ eventc = FALSE
    /\ senders = <<>>
    /\ monitors = <<>>
    /\ cache = [r \in KnownRefs |-> 0]
    /\ ctxDone = FALSE
    /\ requests = 0

TReplaceChain ==
    /\ ~table.panic
    /\ UNCHANGED ctlVars
    /\ \E f \in ChainForests :
          /\ table' = Replace(table, f)
          /\ last' = op("Replace", f)

TOpen ==
    /\ ~table.panic
    /\ UNCHANGED ctlVars
    /\ \E recursive \in BOOLEAN :
          /\ table' = SetTraversable(table, TRUE, recursive)
          /\ last' = [last EXCEPT !.op = "SetTraversable"]

TScrollBy ==
    /\ ~table.panic
    /\ UNCHANGED ctlVars
    /\ \E d \in Deltas :
          /\ table' = Scroll(table, d)
          /\ last' = [last EXCEPT !.op = "Scroll"]

NextPaths ==
    \/ TReplaceChain
    \/ TOpen
    \/ TScrollBy

SpecPaths == InitPaths /\ [][NextPaths]_vars

(***************************************************************************)
(* The store of the cache, as the specification describes it (the cache    *)
(* package is not among the sources): a mapping from pipeline keys to      *)
(* pipelines behind a readers-writer lock.  A pipeline is [updatedAt,      *)
(* state]; NoPipeline stands for a key not in the mapping.  The writers    *)
(* are the monitor tasks; each call of SavePipeline runs under the write   *)
(* lock and is one step.                                                   *)
(***************************************************************************)
MaxUpdatedAt == 2
MaxWriters == 2

PipelineKeys == {"k1", "k2"}
PipelineStates == {"running", "passed"}
NoPipeline == [updatedAt |-> 0 - 1, state |-> "none"]
PipelineValues == [updatedAt : 0 .. MaxUpdatedAt, state : PipelineStates]

\* SavePipeline: the write is rejected when the incoming updatedAt is smaller
\* than the cached one; else the pipeline is replaced, and changed tells
\* whether an observable field differs
SavePipeline(store, key, p) ==
    IF store[key] # NoPipeline /\ p.updatedAt < store[key].updatedAt
        THEN [store |-> store, changed |-> FALSE]
    ELSE [store |-> [store EXCEPT ![key] = p],
          changed |-> store[key] = NoPipeline \/ store[key].state # p.state]

InitCache ==
    /\ cache \in [PipelineKeys -> PipelineValues \cup {NoPipeline}]
    /\ last = op("New", 0)
    /\ table = NewHierarchicalTable(<<>>, 0)
    /\ ctl = newController(InitialRef, 0)
    /\ run = [pc |-> "returned", tmpRef |-> <<>>, err |-> "nil"]
    /\ eventc = FALSE
    /\ senders = <<>>
    /\ monitors = <<>>
    /\ ctxDone = FALSE
    /\ requests = 0

\* a monitor task saves a pipeline a provider returned
WriterSave ==
    /\ \E w \in 1 .. MaxWriters, key \in PipelineKeys, p \in PipelineValues :
          LET r == SavePipeline(cache, key, p)
          IN /\ cache' = r.store
             /\ last' = op("SavePipeline", [by |-> w, key |-> key, p |-> p,
                                            changed |-> r.changed])
    /\ UNCHANGED <<table, ctl, run, eventc, senders, monitors, ctxDone, requests>>

NextCache == WriterSave

SpecCache == InitCache /\ [][NextCache]_vars

(***************************************************************************)
(* Controller.Run, its goroutines and its environment.                     *)
(***************************************************************************)
step(name, arg, by) == [op |-> name, arg |-> arg, by |-> by]

Remove(seq, k) == [i \in 1 .. (Len(seq) - 1) |-> IF i < k THEN seq[i] ELSE seq[i + 1]]

\* cancelling a context cancels every context derived from it
cancelAll(ms) == [i \in DOMAIN ms |-> [ms[i] EXCEPT !.cancelled = TRUE]]

\* a loop that leaves the previous monitor's context alone
refCancelNothing(ms) == ms

\* refCancel(): the contexts of the monitors started so far, the last one's
\* included, are cancelled
refCancel(ms) == cancelAll(ms)

\* the context of Run: cancelled with its parent, or when Run returns
runCtxDone == ctxDone \/ run.pc = "returned"

\* Run after construction: the status written, the table refreshed from the
\* cache, the goroutine sending c.ref started
Init ==
    /\ LET c == newController(InitialRef, InitialHeight)
           r == refresh(c, NewHierarchicalTable(<<>>, InitialHeight),
                        [x \in KnownRefs |-> 0])
       IN ctl = r.c /\ table = r.t
    /\ run = [pc |-> "select", tmpRef |-> <<>>, err |-> "none"]
    /\ eventc = FALSE
    /\ senders = <<[src |-> "init", pc |-> "start", val |-> <<>>]>>
    /\ monitors = <<>>
    /\ cache = [r \in KnownRefs |-> 0]
    /\ ctxDone = FALSE
    /\ requests = 1
    /\ last = step("Run", <<>>, "ui")

\* a Run that reports success whatever ended its loop
returnedSuccess(err) == [run EXCEPT !.pc = "returned", !.err = "nil"]

\* Run leaves its loop with err: ErrExit becomes nil, the deferred cancel
\* cancels every monitor's context
returned(err) ==
    [run EXCEPT !.pc = "returned", !.err = IF err = "exit" THEN "nil" ELSE err]

\* the event would make process start a goroutine sending a ref
spawnsRequest(ev) ==
    \/ ctl.focus = "table" /\ ev = keyEvent("u")
    \/ ctl.focus = "ref" /\ ev = keyEvent("Enter") /\ ctl.refcmd.input # <<>>

\* the terminal has an event to deliver on Eventc
Poll ==
    /\ run.pc \in {"select", "log"}
    /\ ~eventc
    /\ eventc' = TRUE
    /\ last' = step("Poll", <<>>, "terminal")
    /\ UNCHANGED <<table, ctl, run, senders, monitors, cache, ctxDone, requests>>

\* case event := <-c.tui.Eventc, for an event of evs; which event the
\* terminal held shows when it is received
ProcessOf(evs) ==
    /\ run.pc = "select"
    /\ eventc
    /\ \E ev \in evs, env \in {"ok", "fail"} :
          LET r == process(ctl, table, ev, env)
          IN /\ spawnsRequest(ev) => requests < MaxRequests
             /\ last' = step("Process", ev, "ui")
             /\ ctl' = r.c
             /\ table' = r.t
             /\ run' = IF r.ret # "nil" THEN returned(r.ret)
                        ELSE [run EXCEPT !.pc = r.pc]
             /\ senders' = IF r.spawn = NoSpawn THEN senders
                            ELSE Append(senders, r.spawn)
             /\ requests' = IF r.spawn = NoSpawn THEN requests ELSE requests + 1
             /\ monitors' = IF r.ret # "nil" THEN cancelAll(monitors) ELSE monitors
    /\ eventc' = FALSE
    /\ UNCHANGED <<cache, ctxDone>>

Process == ProcessOf(SessionEvents(ctl.focus))

\* viewLog: cache.Log returns the log, ErrNoLogHere or an error (the
\* context's when it is cancelled)
LogReturn ==
    /\ run.pc = "log"
    /\ \E out \in {"log", "nolog", "other", "canceled"} :
          /\ out = "canceled" => ctxDone
          /\ run' = CASE out = "log" -> [run EXCEPT !.pc = "pager"]
                       [] out = "nolog" -> [run EXCEPT !.pc = "select"]
                       [] OTHER -> returned(out)
          /\ monitors' = IF out \in {"other", "canceled"} THEN cancelAll(monitors)
                          ELSE monitors
          /\ last' = step("LogReturn", out, "ui")
    /\ UNCHANGED <<table, ctl, eventc, senders, cache, ctxDone, requests>>

\* a return from the pager that starts the table afresh: folds closed,
\* cursor on the first row
PagerExitResets ==
    /\ run.pc = "pager"
    /\ run' = [run EXCEPT !.pc = "select"]
    /\ table' = Top(SetTraversable(Top(table), FALSE, TRUE))
    /\ last' = step("PagerExit", "nil", "ui")
    /\ UNCHANGED <<ctl, eventc, senders, monitors, cache, ctxDone, requests>>

\* viewLog: c.tui.Exec returns when the pager exits
PagerExit ==
    /\ run.pc = "pager"
    /\ \E out \in {"nil", "other"} :
          /\ run' = IF out = "nil" THEN [run EXCEPT !.pc = "select"]
                     ELSE returned(out)
          /\ monitors' = IF out = "nil" THEN monitors ELSE cancelAll(monitors)
          /\ last' = step("PagerExit", out, "ui")
    /\ UNCHANGED <<table, ctl, eventc, senders, cache, ctxDone, requests>>

\* case ref := <-refc
RecvRef ==
    /\ run.pc = "select"
    /\ \E k \in DOMAIN senders :
          /\ senders[k].pc = "send"
          /\ run' = [run EXCEPT !.tmpRef = senders[k].val]
          /\ monitors' = Append(refCancel(monitors),
                                [ref |-> senders[k].val, cancelled |-> runCtxDone,
                                 pc |-> "start", err |-> "nil"])
          /\ senders' = Remove(senders, k)
          /\ last' = step("RecvRef", <<>>, "ui")
    /\ UNCHANGED <<table, ctl, eventc, cache, ctxDone, requests>>

\* case <-updates
Update ==
    /\ run.pc = "select"
    /\ \E i \in DOMAIN monitors :
          /\ monitors[i].pc = "tick"
          /\ monitors' = [monitors EXCEPT ![i].pc = "monitor"]
          /\ LET s == setRef(ctl, table, cache, run.tmpRef)
                 r == refresh(s.c, s.t, cache)
             IN ctl' = r.c /\ table' = r.t
          /\ last' = step("Update", <<>>, "ui")
    /\ UNCHANGED <<run, eventc, senders, cache, ctxDone, requests>>

\* a loop that ends on every error but a cancellation
endsLoopButCanceled(e) == e # "canceled"

\* a loop that a cancellation ends like any other error
endsLoopOnCancel(e) == e # "unknownref"

\* the errors of errc that end the loop: all but context.Canceled and
\* ErrUnknownGitReference
endsLoop(e) == e \notin {"canceled", "unknownref"}

\* case e := <-errc
RecvErr ==
    /\ run.pc = "select"
    /\ \E i \in DOMAIN monitors :
          /\ monitors[i].pc = "errsend"
          /\ LET e == monitors[i].err
                 ms == Remove(monitors, i)
             IN /\ ctl' = IF e = "unknownref" THEN writeStatus(ctl, "unknownref")
                           ELSE ctl
                /\ run' = IF endsLoop(e) THEN returned(e) ELSE run
                /\ monitors' = IF endsLoop(e) THEN cancelAll(ms) ELSE ms
                /\ last' = step("RecvErr", e, "ui")
    /\ UNCHANGED <<table, eventc, senders, cache, ctxDone, requests>>

\* case <-ctx.Done()
CtxDone ==
    /\ run.pc = "select"
    /\ ctxDone
    /\ run' = returned("canceled")
    /\ monitors' = cancelAll(monitors)
    /\ last' = step("CtxDone", <<>>, "ui")
    /\ UNCHANGED <<table, ctl, eventc, senders, cache, ctxDone, requests>>

\* the caller of Run cancels its context
ExternalCancel ==
    /\ ~ctxDone
    /\ run.pc # "returned"
    /\ ctxDone' = TRUE
    /\ monitors' = cancelAll(monitors)
    /\ last' = step("ExternalCancel", <<>>, "caller")
    /\ UNCHANGED <<table, ctl, run, eventc, senders, cache, requests>>

\* a sending goroutine that offers the ref the loop received last
SenderEvalPending ==
    /\ \E k \in DOMAIN senders :
          /\ senders[k].pc = "start"
          /\ senders' = [senders EXCEPT ![k].pc = "send", ![k].val = run.tmpRef]
          /\ last' = step("SenderEval", <<>>, "sender")
    /\ UNCHANGED <<table, ctl, run, eventc, monitors, cache, ctxDone, requests>>

\* a sending goroutine reaches its select and evaluates c.ref
SenderEval ==
    /\ \E k \in DOMAIN senders :
          /\ senders[k].pc = "start"
          /\ senders' = [senders EXCEPT ![k].pc = "send", ![k].val = ctl.ref]
          /\ last' = step("SenderEval", <<>>, "sender")
    /\ UNCHANGED <<table, ctl, run, eventc, monitors, cache, ctxDone, requests>>

\* a sending goroutine leaves by case <-ctx.Done()
SenderAbort ==
    /\ runCtxDone
    /\ \E k \in DOMAIN senders :
          /\ senders[k].pc = "send"
          /\ senders' = Remove(senders, k)
          /\ last' = step("SenderAbort", <<>>, "sender")
    /\ UNCHANGED <<table, ctl, run, eventc, monitors, cache, ctxDone, requests>>

\* the monitor goroutine up to MonitorPipelines: RemotesAndCommit fails
\* ("giterr"), finds no local repository ("remote"), or succeeds and
\* References fails ("referr") or gives the suggestions ("local"), which
\* the goroutine stores in c.refcmd
MonitorResolve ==
    /\ \E i \in DOMAIN monitors, out \in {"giterr", "remote", "referr", "local"} :
          /\ monitors[i].pc = "start"
          /\ monitors' = IF out \in {"giterr", "referr"}
                            THEN [monitors EXCEPT ![i].pc = "errsend",
                                                  ![i].err = "other"]
                            ELSE [monitors EXCEPT ![i].pc = "monitor"]
          /\ ctl' = IF out = "local"
                        THEN [ctl EXCEPT !.refcmd.completions = KnownRefs]
                        ELSE ctl
          /\ last' = step("MonitorResolve", <<>>, "monitor")
    /\ UNCHANGED <<table, run, eventc, senders, cache, ctxDone, requests>>

\* MonitorPipelines: a provider's pipeline is saved and changes the cache;
\* a tick is offered on updates
MonitorSave ==
    /\ \E i \in DOMAIN monitors :
          /\ monitors[i].pc = "monitor"
          /\ monitors[i].ref \in KnownRefs
          /\ cache[monitors[i].ref] < MaxPipelines
          /\ cache' = [cache EXCEPT ![monitors[i].ref] = @ + 1]
          /\ monitors' = [monitors EXCEPT ![i].pc = "tick"]
          /\ last' = step("MonitorSave", <<>>, "monitor")
    /\ UNCHANGED <<table, ctl, run, eventc, senders, ctxDone, requests>>

\* updates := make(chan time.Time): the channel holds no tick
updatesCapacity == 0

\* the monitors whose tick has been sent and neither received nor dropped
ticksPending(ms) == {j \in DOMAIN ms : ms[j].pc = "tick"}

\* MonitorPipelines: the tick finds no receiver and no room in the channel
\* and is dropped
MonitorDrop ==
    /\ \E i \in DOMAIN monitors :
          /\ monitors[i].pc = "tick"
          /\ Cardinality(ticksPending(monitors)) > updatesCapacity
          /\ monitors' = [monitors EXCEPT ![i].pc = "monitor"]
          /\ last' = step("MonitorDrop", <<>>, "monitor")
    /\ UNCHANGED <<table, ctl, run, eventc, senders, cache, ctxDone, requests>>

\* MonitorPipelines returns: its context's error once cancelled,
\* ErrUnknownGitReference for a ref no provider knows, or a provider's
\* error; the goroutine sends it on errc
MonitorReturn ==
    /\ \E i \in DOMAIN monitors, e \in {"canceled", "unknownref", "other"} :
          /\ monitors[i].pc \in {"monitor", "tick"}
          /\ e = "canceled" => monitors[i].cancelled
          /\ e = "unknownref" => monitors[i].ref \notin KnownRefs
          /\ monitors' = [monitors EXCEPT ![i].pc = "errsend", ![i].err = e]
          /\ last' = step("MonitorReturn", <<>>, "monitor")
    /\ UNCHANGED <<table, ctl, run, eventc, senders, cache, ctxDone, requests>>

Next ==
    \/ Poll
    \/ Process
    \/ LogReturn
    \/ PagerExit
    \/ RecvRef
    \/ Update
    \/ RecvErr
    \/ CtxDone
    \/ ExternalCancel
    \/ SenderEval
    \/ SenderAbort
    \/ MonitorResolve
    \/ MonitorSave
    \/ MonitorDrop
    \/ MonitorReturn

Spec == Init /\ [][Next]_vars

(***************************************************************************)
(* Run from the point where a switch of ref is pending: A is displayed,    *)
(* the loop has received B from the prompt and started its monitor, the    *)
(* monitor of A has ended and its error has been received, no tick of B    *)
(* has come yet.  One more request fits in MaxRequests.                    *)
(***************************************************************************)
PendingRef == <<"B">>

InitRefresh ==
    /\ LET c == newController(InitialRef, InitialHeight)
           r == refresh(c, NewHierarchicalTable(<<>>, InitialHeight),
                        [x \in KnownRefs |-> 0])
       IN ctl = r.c /\ table = r.t
    /\ run = [pc |-> "select", tmpRef |-> PendingRef, err |-> "none"]
    /\ eventc = FALSE
    /\ senders = <<>>
    /\ monitors = <<[ref |-> PendingRef, cancelled |-> FALSE, pc |-> "start",
                     err |-> "nil"]>>
    /\ cache = [r \in KnownRefs |-> 0]
    /\ ctxDone = FALSE
    /\ requests = MaxRequests - 1
    /\ last = step("RecvErr", "canceled", "ui")

SpecRefresh == InitRefresh /\ [][Next]_vars

(***************************************************************************)
(* Run from the point where a request of the user is waiting: A is         *)
(* displayed and monitored, the user has submitted B in the ref prompt and *)
(* the goroutine started for it is at its send on refc.  One more request  *)
(* fits in MaxRequests.                                                    *)
(***************************************************************************)
FirstRequest == <<"B">>

InitOrder ==
    /\ cache = [x \in KnownRefs |-> IF x = InitialRef THEN 1 ELSE 0]
    /\ LET c == newController(InitialRef, InitialHeight)
           r == refresh(c, NewHierarchicalTable(<<>>, InitialHeight), cache)
       IN ctl = r.c /\ table = r.t
    /\ run = [pc |-> "select", tmpRef |-> InitialRef, err |-> "none"]
    /\ eventc = FALSE
    /\ senders = <<refRequest(FirstRequest)>>
    /\ monitors = <<[ref |-> InitialRef, cancelled |-> FALSE, pc |-> "monitor",
                     err |-> "nil"]>>
    /\ ctxDone = FALSE
    /\ requests = MaxRequests - 1
    /\ last = step("Update", <<>>, "ui")

\* the keys of a session that only changes the ref and quits
OrderKeys(f) ==
    CASE f = "table" -> {"q", "g", "u"}
      [] f = "ref" -> PromptKeys
      [] OTHER -> {}

ProcessOrder == ProcessOf({keyEvent(k) : k \in OrderKeys(ctl.focus)})

NextOrder ==
    \/ Poll
    \/ ProcessOrder
    \/ RecvRef
    \/ Update
    \/ RecvErr
    \/ CtxDone
    \/ ExternalCancel
    \/ SenderEval
    \/ SenderAbort
    \/ MonitorResolve
    \/ MonitorSave
    \/ MonitorDrop
    \/ MonitorReturn

SpecOrder == InitOrder /\ [][NextOrder]_vars

(***************************************************************************)
(* RunWidgetApp (tui.go): the main loop, the goroutine of the controller   *)
(* and the goroutines started by go poll().  In SpecApp the variable run   *)
(* holds the whole application:                                            *)
(*   pc, err   position of the main loop and the error it returned;        *)
(*   screen    the variable screen, which the closures poll and the        *)
(*             deferred function share with the loop: the number of a      *)
(*             screen, 0 for the nil NewScreen leaves with an error;       *)
(*   screens   the screens made so far: "new", "init" after Init, "fini"   *)
(*             after Fini;                                                 *)
(*   pollers   the goroutines running poll: the screen each was started    *)
(*             for, the screen it is polling (on), its position;           *)
(*   ctrl      the goroutine of the controller and the event it sends on   *)
(*             outc;                                                       *)
(*   cmd, subCtx   the external command and the context of its stream;     *)
(*   drawn     the state of the screen the last ShowText was drawn on.     *)
(* tcell's PollEvent returns an event of an initialised screen and nil     *)
(* once the screen is finalised.  Controller.Process, not among the        *)
(* sources, may send any output events before it returns.                  *)
(***************************************************************************)
MaxScreens == 2

OutputEvents == {"ShowText", "ExecCmd", "ExitEvent"}

InitApp ==
    /\ run = [pc |-> "select", err |-> "none", screen |-> 1,
              screens |-> <<"init">>,
              pollers |-> <<[for |-> 1, on |-> 0, pc |-> "loop"]>>,
              ctrl |-> [pc |-> "select", out |-> "none", from |-> "none"],
              cmd |-> "none", subCtx |-> "none", drawn |-> "none"]
    /\ last = step("RunWidgetApp", <<>>, "main")
    /\ table = NewHierarchicalTable(<<>>, 0)
    /\ ctl = newController(InitialRef, 0)
    /\ eventc = FALSE
    /\ senders = <<>>
    /\ monitors = <<>>
    /\ cache = [r \in KnownRefs |-> 0]
    /\ ctxDone = FALSE
    /\ requests = 0

appVars == <<table, ctl, eventc, senders, monitors, cache, ctxDone, requests>>

\* the deferred screen.Fini(): the closure reads the variable screen when
\* RunWidgetApp returns
deferredFini(r, err) ==
    [r EXCEPT !.pc = "returned", !.err = err,
              !.screens = IF r.screen = 0 THEN @
                          ELSE [@ EXCEPT ![r.screen] = "fini"]]

\* a ShowText drawn on the screen the application started with
drawFirstScreen(r) == 1

\* case ShowText: screen.Clear(), text.Draw(e.content, screen, ...),
\* screen.Show() act on the variable screen
drawScreen(r) == r.screen

\* poll: event := screen.PollEvent() reads the variable screen and calls
\* PollEvent of the screen it holds
PollerCall ==
    /\ run.screen # 0
    /\ \E k \in DOMAIN run.pollers :
          /\ run.pollers[k].pc = "loop"
          /\ run' = [run EXCEPT !.pollers[k].pc = "polling",
                                !.pollers[k].on = run.screen]
          /\ last' = step("PollerCall", k, "poller")
    /\ UNCHANGED appVars

\* PollEvent returns an event of the terminal
PollerEvent ==
    /\ \E k \in DOMAIN run.pollers :
          /\ run.pollers[k].pc = "polling"
          /\ run.screens[run.pollers[k].on] = "init"
          /\ run' = [run EXCEPT !.pollers[k].pc = "send"]
          /\ last' = step("PollerEvent", k, "poller")
    /\ UNCHANGED appVars

\* PollEvent returns nil, the screen being finalised: poll returns
PollerNil ==
    /\ \E k \in DOMAIN run.pollers :
          /\ run.pollers[k].pc = "polling"
          /\ run.screens[run.pollers[k].on] = "fini"
          /\ run' = [run EXCEPT !.pollers[k].pc = "done"]
          /\ last' = step("PollerNil", k, "poller")
    /\ UNCHANGED appVars

\* eventc <- event meets case event := <-eventc of the controller's
\* goroutine, which calls controller.Process
CtrlRecvEvent ==
    /\ run.ctrl.pc = "select"
    /\ \E k \in DOMAIN run.pollers :
          /\ run.pollers[k].pc = "send"
          /\ run' = [run EXCEPT !.pollers[k].pc = "loop",
                                !.ctrl = [pc |-> "process", out |-> "none",
                                          from |-> "process"]]
          /\ last' = step("CtrlRecvEvent", k, "controller")
    /\ UNCHANGED appVars

\* case <-updates: controller.Refresh, then outc <- ShowText{content}
CtrlTick ==
    /\ run.ctrl.pc = "select"
    /\ run' = [run EXCEPT !.ctrl = [pc |-> "send", out |-> "ShowText",
                                    from |-> "select"]]
    /\ last' = step("CtrlTick", <<>>, "controller")
    /\ UNCHANGED appVars

\* controller.Process sends an output event on outc
CtrlOutput ==
    /\ run.ctrl.pc = "process"
    /\ \E e \in OutputEvents :
          /\ e = "ExecCmd" => Len(run.screens) < MaxScreens
          /\ run' = [run EXCEPT !.ctrl.pc = "send", !.ctrl.out = e]
          /\ last' = step("CtrlOutput", e, "controller")
    /\ UNCHANGED appVars

\* controller.Process returns
CtrlReturn ==
    /\ run.ctrl.pc = "process"
    /\ run' = [run EXCEPT !.ctrl.pc = "select", !.ctrl.from = "none"]
    /\ last' = step("CtrlReturn", <<>>, "controller")
    /\ UNCHANGED appVars

\* case outEvent := <-outc of the main loop.  ExitEvent: cancel() and
\* return;  ShowText: the text is drawn, or Draw fails and the loop returns;
\* ExecCmd: screen.Fini()
MainRecvOut ==
    /\ run.pc = "select"
    /\ run.ctrl.pc = "send"
    /\ LET e == run.ctrl.out
           r == [run EXCEPT !.ctrl.pc = run.ctrl.from, !.ctrl.out = "none"]
       IN /\ last' = step("MainRecvOut", e, "main")
          /\ \/ /\ e = "ExitEvent"
                /\ run' = deferredFini(r, "nil")
             \/ /\ e = "ShowText"
                /\ \E ok \in BOOLEAN :
                      LET d == [r EXCEPT !.drawn = r.screens[drawScreen(r)]]
                      IN run' = IF ok THEN d ELSE deferredFini(d, "draw")
             \/ /\ e = "ExecCmd"
                /\ run' = [r EXCEPT !.pc = "start", !.screens[r.screen] = "fini"]
    /\ UNCHANGED appVars

\* case ExecCmd: subCtx is derived, the stream's goroutine started and
\* e.cmd.Run() called
ExecStart ==
    /\ run.pc = "start"
    /\ run' = [run EXCEPT !.pc = "cmd", !.cmd = "running", !.subCtx = "live"]
    /\ last' = step("ExecStart", <<>>, "main")
    /\ UNCHANGED appVars

\* e.cmd.Run() returns
ExecExit ==
    /\ run.pc = "cmd"
    /\ run' = [run EXCEPT !.pc = "cancel", !.cmd = "exited"]
    /\ last' = step("ExecExit", <<>>, "main")
    /\ UNCHANGED appVars

\* cancel() of subCtx
ExecCancel ==
    /\ run.pc = "cancel"
    /\ run' = [run EXCEPT !.pc = "newscreen", !.subCtx = "cancelled"]
    /\ last' = step("ExecCancel", <<>>, "main")
    /\ UNCHANGED appVars

\* screen, err = tcell.NewScreen(): the variable is assigned either way
ExecNewScreen ==
    /\ run.pc = "newscreen"
    /\ \E ok \in BOOLEAN :
          /\ run' = IF ok
                       THEN [run EXCEPT !.pc = "init",
                                        !.screens = Append(@, "new"),
                                        !.screen = Len(run.screens) + 1]
                    ELSE [run EXCEPT !.pc = "returned", !.err = "screen",
                                     !.screen = 0]
          /\ last' = step("ExecNewScreen", ok, "main")
    /\ UNCHANGED appVars

\* screen.Init(), SetStyle and Clear
ExecInit ==
    /\ run.pc = "init"
    /\ \E ok \in BOOLEAN :
          /\ run' = IF ok THEN [run EXCEPT !.pc = "gopoll",
                                           !.screens[run.screen] = "init"]
                    ELSE deferredFini(run, "init")
          /\ last' = step("ExecInit", ok, "main")
    /\ UNCHANGED appVars

\* go poll()
ExecGoPoll ==
    /\ run.pc = "gopoll"
    /\ run' = [run EXCEPT !.pc = "select",
                          !.pollers = Append(@, [for |-> run.screen, on |-> 0,
                                                 pc |-> "loop"])]
    /\ last' = step("ExecGoPoll", <<>>, "main")
    /\ UNCHANGED appVars

\* case err := <-errc: a goroutine has sent an error
MainRecvErr ==
    /\ run.pc = "select"
    /\ run' = deferredFini(run, "other")
    /\ last' = step("MainRecvErr", <<>>, "main")
    /\ UNCHANGED appVars

NextApp ==
    \/ PollerCall
    \/ PollerEvent
    \/ PollerNil
    \/ CtrlRecvEvent
    \/ CtrlTick
    \/ CtrlOutput
    \/ CtrlReturn
    \/ MainRecvOut
    \/ ExecStart
    \/ ExecExit
    \/ ExecCancel
    \/ ExecNewScreen
    \/ ExecInit
    \/ ExecGoPoll
    \/ MainRecvErr

SpecApp == InitApp /\ [][NextApp]_vars

(***************************************************************************)
(* Controller.process driven alone: the loop of Run receives terminal      *)
(* events only, any event in any focus.  The table shows what a monitor    *)
(* has left in the cache, any snapshot; the monitors themselves, which     *)
(* process never reads, are not run here, and the goroutines process       *)
(* starts wait for the loop.                                               *)
(***************************************************************************)
InitKeys ==
    /\ \E db \in [KnownRefs -> 0 .. MaxPipelines] :
          LET c == newController(InitialRef, InitialHeight)
              r == refresh(c, NewHierarchicalTable(<<>>, InitialHeight), db)
          IN ctl = r.c /\ table = r.t /\ cache = db
    /\ run = [pc |-> "select", tmpRef |-> <<>>, err |-> "none"]
    /\ eventc = FALSE
    /\ senders = <<>>
    /\ monitors = <<>>
    /\ ctxDone = FALSE
    /\ requests = 0
    /\ last = step("Run", <<>>, "ui")

ProcessAny == ProcessOf(EventsIn(ctl.focus))

NextKeys ==
    \/ Poll
    \/ ProcessAny
    \/ LogReturn
    \/ PagerExit
    \/ SenderEval
    \/ SenderAbort

SpecKeys == InitKeys /\ [][NextKeys]_vars

(***************************************************************************)
(* Helpers of the properties, written without the table's own traversal.   *)
(***************************************************************************)
RECURSIVE NodeSet(_)
NodeSet(children) ==
    UNION {{children[i]} \cup NodeSet(children[i].children) : i \in DOMAIN children}

PathSet(t) == {n.path : n \in NodeSet(t.nodes)}

OpenPathSet(t) == {n.path : n \in {m \in NodeSet(t.nodes) : m.traversable}}

ParentPath(p) == SubSeq(p, 1, Len(p) - 1)

\* where an index must be after a rebuild: on the row of the saved path when
\* the path is still in the forest, else on the first row, else invalid
Survives(old, index, new, newIndex) ==
    IF index.Valid /\ rowPath(old, index.Int) \in PathSet(new)
        THEN /\ newIndex.Valid
             /\ inRange(new, newIndex.Int)
             /\ rowPath(new, newIndex.Int) = rowPath(old, index.Int)
        ELSE IF Len(new.rows) > 0 THEN newIndex = validInt(0)
        ELSE ~newIndex.Valid

(***************************************************************************)
(* C1: whenever Replace returns, a node of the new forest is open if and   *)
(* only if a node with the same path was open just before the call; a node *)
(* whose path is new is closed.  Hidden nodes are covered: the quantifier  *)
(* ranges over the whole forest, not over the rows.                        *)
(***************************************************************************)
C1_ReplaceKeepsFolds ==
    [][(last'.op = "Replace" /\ ~table'.panic) =>
            OpenPathSet(table') = OpenPathSet(table) \cap PathSet(table')]_vars

\* a rebuild has left a node open under a closed parent, next to a closed node
C1_Witness ==
    /\ last.op = "Replace"
    /\ ~table.panic
    /\ \E n \in NodeSet(table.nodes) :
          /\ Len(n.path) >= 2
          /\ n.traversable
          /\ ParentPath(n.path) \notin OpenPathSet(table)
          /\ n.path \notin {table.rows[i] : i \in DOMAIN table.rows}
    /\ PathSet(table) # OpenPathSet(table)

(***************************************************************************)
(* C2: whenever Replace returns, the cursor is on the row whose path the   *)
(* cursor row had before the call if that path is still in the forest,     *)
(* else on the first row, or invalid when there is no row; the same for    *)
(* the first row of the page.                                              *)
(***************************************************************************)
C2_CursorSurvivesReplace ==
    [][(last'.op = "Replace" /\ ~table'.panic) =>
            /\ Survives(table, table.cursorIndex, table', table'.cursorIndex)
            /\ Survives(table, table.pageIndex, table', table'.pageIndex)]_vars

\* a rebuild has moved the cursor row to another index, away from row 0
C2_Witness ==
    /\ last.op = "Replace"
    /\ ~table.panic
    /\ last.arg.Valid
    /\ table.cursorIndex.Valid
    /\ table.cursorIndex.Int >= 1
    /\ table.cursorIndex.Int # last.arg.Int
    /\ table.pageIndex.Int >= 1

(***************************************************************************)
(* C3: with a valid cursor and PageSize >= 1, Scroll(delta) puts the       *)
(* cursor on min(max(cursor + delta, 0), len(rows) - 1) and leaves         *)
(* pageIndex <= cursorIndex <= pageIndex + PageSize - 1; with an invalid   *)
(* cursor it changes nothing.                                              *)
(***************************************************************************)
C3_ScrollClamps ==
    [][last'.op = "Scroll" =>
        IF ~table.cursorIndex.Valid THEN table' = table
        ELSE PageSize(table) >= 1 =>
            /\ table'.cursorIndex.Valid
            /\ table'.cursorIndex.Int =
                 MinInt(MaxInt(table.cursorIndex.Int + last'.arg, 0),
                        Len(table.rows) - 1)
            /\ table'.pageIndex.Valid
            /\ table'.pageIndex.Int <= table'.cursorIndex.Int
            /\ table'.cursorIndex.Int <= table'.pageIndex.Int + PageSize(table) - 1
            /\ table'.rows = table.rows /\ table'.nodes = table.nodes]_vars

\* a scroll was clamped at the last row and has moved the page
C3_Witness ==
    /\ last.op = "Scroll"
    /\ last.arg >= 2
    /\ PageSize(table) >= 1
    /\ table.cursorIndex.Valid
    /\ table.cursorIndex.Int = Len(table.rows) - 1
    /\ table.pageIndex.Int >= 1
    /\ table.pageIndex.Int = table.cursorIndex.Int - PageSize(table) + 1

(***************************************************************************)
(* Helpers of the controller's properties.                                 *)
(***************************************************************************)
\* the keys of the pipelines the table shows, in order
shownKeys(t) == [i \in DOMAIN t.nodes |-> t.nodes[i].path[1]]

\* the refs whose pipelines the table shows
shownRefs(t) == {shownKeys(t)[i][1] : i \in DOMAIN t.nodes}

\* the keys of the cache's snapshot for a ref
snapshotKeys(db, ref) ==
    IF ref \in DOMAIN db THEN [i \in 1 .. db[ref] |-> <<ref, i>>] ELSE <<>>

alive(ms) == {i \in DOMAIN ms : ~ms[i].cancelled}

(***************************************************************************)
(* C4: at every step at most one monitor has a context that is not         *)
(* cancelled, and when the loop receives a ref, the contexts of all the    *)
(* monitors started before are cancelled in the step that starts the new   *)
(* monitor; a monitor whose context is cancelled may still be winding      *)
(* down.                                                                   *)
(***************************************************************************)
C4_OneMonitorAlive ==
    [][/\ Cardinality(alive(monitors')) <= 1
       /\ last'.op = "RecvRef" =>
            /\ Len(monitors') = Len(monitors) + 1
            /\ \A i \in DOMAIN monitors : monitors'[i].cancelled
            /\ monitors'[Len(monitors')].ref = run'.tmpRef]_vars

\* the loop has just started a second monitor for the same ref while the
\* first one, cancelled, is still inside MonitorPipelines
C4_Witness ==
    /\ last.op = "RecvRef"
    /\ Len(monitors) = 2
    /\ monitors[1].cancelled
    /\ monitors[1].pc \in {"monitor", "tick"}
    /\ monitors[1].ref = monitors[2].ref
    /\ ~monitors[2].cancelled
    /\ monitors[2].pc = "start"

(***************************************************************************)
(* C5, as amended: receiving a ref changes neither the table nor c.ref;    *)
(* c.ref changes only when the loop takes a tick from updates, and that    *)
(* step sets c.ref to the last ref received and leaves the table showing   *)
(* exactly the cache's snapshot for it; the table never shows a pipeline   *)
(* of a ref other than c.ref.                                              *)
(***************************************************************************)
C5_SwitchOnUpdate ==
    [][/\ shownRefs(table') \subseteq {ctl'.ref}
       /\ ctl'.ref # ctl.ref => last'.op = "Update"
       /\ last'.op = "RecvRef" => table' = table /\ ctl'.ref = ctl.ref
       /\ last'.op = "Update" =>
            /\ ctl'.ref = run.tmpRef
            /\ shownKeys(table') = snapshotKeys(cache, run.tmpRef)]_vars

\* a tick has switched the table from the pipelines of A to those of B
C5_Witness ==
    /\ last.op = "Update"
    /\ ctl.ref = <<"B">>
    /\ run.tmpRef = <<"B">>
    /\ cache[<<"A">>] >= 1
    /\ cache[<<"B">>] >= 1
    /\ shownKeys(table) = snapshotKeys(cache, <<"B">>)

\* C5 as stated: once the loop has received a ref, the table shows no
\* pipeline of another ref
C5_ClearedOnSwitch ==
    run.tmpRef # <<>> => shownRefs(table) \subseteq {run.tmpRef}

(***************************************************************************)
(* C6: the focus is table when Run starts; a step that processes a key     *)
(* moves it from table to search on '/', to ref on 'g', to help on '?',    *)
(* from search or ref to table on Enter or Esc, from help to table on 'q', *)
(* and leaves it unchanged for every other key; a resize and every step    *)
(* that is not the processing of a terminal event leave it unchanged.      *)
(***************************************************************************)
C6_Transition(f, ev) ==
    IF ev.type # "key" THEN f
    ELSE IF f = "table" /\ ev.key = "/" THEN "search"
    ELSE IF f = "table" /\ ev.key = "g" THEN "ref"
    ELSE IF f = "table" /\ ev.key = "?" THEN "help"
    ELSE IF f \in {"search", "ref"} /\ ev.key \in {"Enter", "Esc"} THEN "table"
    ELSE IF f = "help" /\ ev.key = "q" THEN "table"
    ELSE f

C6_FocusMachine ==
    /\ ctl.focus = "table"
    /\ [][IF last'.op = "Process"
            THEN ctl'.focus = C6_Transition(ctl.focus, last'.arg)
            ELSE ctl'.focus = ctl.focus]_vars

\* 'q' has closed the help screen: Run goes on and the focus is the table
C6_Witness ==
    /\ last.op = "Process"
    /\ last.arg = keyEvent("q")
    /\ ctl.focus = "table"
    /\ run.pc = "select"

(***************************************************************************)
(* C7: the step that processes 'q' with the focus on the table ends Run    *)
(* with no error; the step that processes 'q' with the focus on search,    *)
(* ref or help leaves Run in its loop.                                     *)
(***************************************************************************)
C7_QuitOnlyInTable ==
    [][(last'.op = "Process" /\ last'.arg = keyEvent("q")) =>
            IF ctl.focus = "table"
                THEN run'.pc = "returned" /\ run'.err = "nil"
                ELSE run'.pc = "select" /\ run'.err = run.err]_vars

\* 'q' has ended Run with no error while a goroutine process started was
\* still waiting to send its ref
C7_Witness ==
    /\ last.op = "Process"
    /\ last.arg = keyEvent("q")
    /\ run.pc = "returned"
    /\ run.err = "nil"
    /\ senders # <<>>

(***************************************************************************)
(* C8 as stated: the UI task is never inside a call to a provider, that    *)
(* is, never waiting for cache.Log to return.                              *)
(***************************************************************************)
C8_NeverInProviderCall == run.pc # "log"

(***************************************************************************)
(* C9 as stated: only a step of the UI task changes the Controller.        *)
(***************************************************************************)
C9_OnlyUIWrites == [][ctl' # ctl => last'.by = "ui"]_vars

(***************************************************************************)
(* C10 as stated: when the loop is at its select and a terminal event is   *)
(* waiting, the next step of the loop processes the terminal event.        *)
(***************************************************************************)
C10_EventsFirst ==
    [][(run.pc = "select" /\ eventc /\ last'.by = "ui") =>
            last'.op = "Process"]_vars

(***************************************************************************)
(* C11 as stated: the step that processes 'v' in the table focus when the  *)
(* table has no active row, and the step in which cache.Log reports        *)
(* ErrNoLogHere, leave Run in its loop with no error.                      *)
(***************************************************************************)
C11_NoLogIgnored ==
    [][/\ (/\ last'.op = "Process"
           /\ last'.arg = keyEvent("v")
           /\ ctl.focus = "table"
           /\ ~activeStepPathExists(table)) =>
                run'.pc = "select" /\ run'.err = run.err
       /\ (last'.op = "LogReturn" /\ last'.arg = "nolog") =>
                run'.pc = "select" /\ run'.err = run.err]_vars

(***************************************************************************)
(* C12: the step in which the loop receives ErrUnknownGitReference from    *)
(* errc writes the error to the status line and changes nothing else: Run  *)
(* stays in its loop, and the focus, c.ref and the table are unchanged.    *)
(***************************************************************************)
C12_UnknownRefShown ==
    [][(last'.op = "RecvErr" /\ last'.arg = "unknownref") =>
            /\ ctl' = [ctl EXCEPT !.status = "unknownref"]
            /\ run' = run
            /\ run.pc = "select"
            /\ table' = table]_vars

\* the ref the user asked for is unknown: the status says so over the
\* pipelines of the previous ref, and the loop goes on
C12_Witness ==
    /\ last.op = "RecvErr"
    /\ last.arg = "unknownref"
    /\ ctl.status = "unknownref"
    /\ run.pc = "select"
    /\ run.tmpRef = <<"q">>
    /\ ctl.ref = <<"A">>
    /\ Len(table.nodes) >= 1

(***************************************************************************)
(* C13: a step in which an error other than context.Canceled,              *)
(* ErrUnknownGitReference and ErrExit reaches the loop, from errc, from    *)
(* process, from cache.Log or from the pager, ends Run, and Run returns    *)
(* that error.                                                             *)
(***************************************************************************)
C13_Spared == {"nil", "exit", "canceled", "unknownref"}

C13_FatalErrors ==
    [][/\ (last'.op \in {"RecvErr", "LogReturn", "PagerExit"}
                /\ last'.arg \notin C13_Spared \cup {"log", "nolog"}) =>
            run'.pc = "returned" /\ run'.err = last'.arg
       /\ (last'.op = "Process" /\ last'.arg.type = "key") =>
            LET e == keyError(ctl.focus, last'.arg.key, table, "ok")
            IN e \notin C13_Spared => run'.pc = "returned" /\ run'.err = e]_vars

\* a provider's error, sent on errc by a monitor, has ended Run
C13_Witness ==
    /\ last.op = "RecvErr"
    /\ last.arg = "other"
    /\ run.pc = "returned"
    /\ run.err = "other"

(***************************************************************************)
(* C14 as stated: when the loop leaves by the cancellation of the context  *)
(* handed to Run, every monitor's context is cancelled and Run returns no  *)
(* error.                                                                  *)
(***************************************************************************)
C14_CancelExitsZero ==
    [][last'.op = "CtxDone" =>
            /\ \A i \in DOMAIN monitors' : monitors'[i].cancelled
            /\ run'.pc = "returned"
            /\ run'.err = "nil"]_vars

(***************************************************************************)
(* Helpers of the search properties, written without the table's lookup.   *)
(***************************************************************************)
\* s is a run of consecutive characters of text
IsSubstring(s, text) ==
    \E a \in 1 .. (Len(text) + 1) :
        /\ a + Len(s) - 1 <= Len(text)
        /\ \A k \in 1 .. Len(s) : text[a + k - 1] = s[k]

\* row i (from 0) has a column whose text contains s
RowHas(t, i, s) ==
    \E n \in NodeSet(t.nodes) :
        /\ n.path = t.rows[i + 1]
        /\ \E c \in Columns : IsSubstring(s, n.values[c])

\* the k-th row met when walking the rows circularly from the cursor
Walk(t, ascending, k) ==
    (t.cursorIndex.Int + (IF ascending THEN k ELSE Len(t.rows) - k)) % Len(t.rows)

\* the first row other than the cursor's that has s, or -1
FirstMatch(t, s, ascending) ==
    LET K == {k \in 1 .. (Len(t.rows) - 1) : RowHas(t, Walk(t, ascending, k), s)}
    IN IF K = {} THEN 0 - 1
       ELSE Walk(t, ascending, CHOOSE k \in K : \A j \in K : k <= j)

CursorOnRow(t) ==
    /\ t.cursorIndex.Valid
    /\ t.cursorIndex.Int >= 0
    /\ t.cursorIndex.Int < Len(t.rows)

(***************************************************************************)
(* C15: when ScrollToMatch(s, ascending) is called with the cursor on a    *)
(* row, PageSize >= 1 and s in a column of some other row, it returns true *)
(* and leaves the cursor on the first such row met walking the rows        *)
(* circularly from the cursor, upward if ascending, downward if not; the   *)
(* rows and the forest are unchanged.                                      *)
(***************************************************************************)
C15_ScrollToFirstMatch ==
    [][(/\ last'.op = "ScrollToMatch"
        /\ CursorOnRow(table)
        /\ PageSize(table) >= 1
        /\ FirstMatch(table, last'.arg.s, last'.arg.ascending) >= 0) =>
            /\ last'.arg.found
            /\ ~table'.panic
            /\ table'.cursorIndex =
                 validInt(FirstMatch(table, last'.arg.s, last'.arg.ascending))
            /\ table'.rows = table.rows
            /\ table'.nodes = table.nodes]_vars

\* a descending search has wrapped from the first row to the last one,
\* passing over a row that does not match
C15_Witness ==
    /\ last.op = "ScrollToMatch"
    /\ last.arg.found
    /\ ~last.arg.ascending
    /\ last.arg.s # <<>>
    /\ last.arg.from = validInt(0)
    /\ Len(table.rows) = 3
    /\ table.cursorIndex = validInt(1)
    /\ ~RowHas(table, 2, last.arg.s)
    /\ PageSize(table) >= 1

(***************************************************************************)
(* C16 as stated: a call of ScrollToMatch for a string that is not empty, *)
(* with the cursor on a row, returns true if and only if some row, the     *)
(* cursor's included, has the string in a column; when it returns false    *)
(* the cursor and the page are unchanged.                                  *)
(***************************************************************************)
C16_FoundIffSomeRow ==
    [][(/\ last'.op = "ScrollToMatch"
        /\ last'.arg.s # <<>>
        /\ CursorOnRow(table)
        /\ PageSize(table) >= 1) =>
            /\ last'.arg.found <=>
                 \E i \in 0 .. (Len(table.rows) - 1) : RowHas(table, i, last'.arg.s)
            /\ ~last'.arg.found =>
                 /\ table'.cursorIndex = table.cursorIndex
                 /\ table'.pageIndex = table.pageIndex]_vars

(***************************************************************************)
(* C17: the step that processes Enter in the ref focus starts a goroutine  *)
(* sending the prompt's input on refc if and only if the input is not      *)
(* empty, and moves the focus to the table; the step that processes Esc    *)
(* there moves the focus to the table and starts none.  A goroutine that   *)
(* sends a ref ends only when the loop receives its ref or, the context of *)
(* Run being cancelled, when it gives up.                                  *)
(***************************************************************************)
C17_RefSubmit ==
    [][/\ (last'.op = "Process" /\ ctl.focus = "ref"
                /\ last'.arg = keyEvent("Enter")) =>
            /\ ctl'.focus = "table"
            /\ senders' = IF ctl.refcmd.input # <<>>
                            THEN Append(senders, [src |-> "prompt", pc |-> "send",
                                                  val |-> ctl.refcmd.input])
                            ELSE senders
       /\ (last'.op = "Process" /\ ctl.focus = "ref"
                /\ last'.arg = keyEvent("Esc")) =>
            ctl'.focus = "table" /\ senders' = senders
       /\ Len(senders') < Len(senders) =>
            \E k \in DOMAIN senders :
                /\ senders' = Remove(senders, k)
                /\ senders[k].pc = "send"
                /\ \/ last'.op = "RecvRef" /\ run'.tmpRef = senders[k].val
                   \/ last'.op = "SenderAbort" /\ (ctxDone \/ run.pc = "returned")]_vars

\* the loop has received the ref typed in the prompt
C17_Witness ==
    /\ last.op = "RecvRef"
    /\ run.tmpRef = <<"B">>
    /\ ctl.focus = "table"
    /\ Len(monitors) = 2
    /\ monitors[2].ref = <<"B">>

(***************************************************************************)
(* C18: from the step that processes 'v' in the table focus until the      *)
(* pager has returned, no step changes the focus, the cursor, the page,    *)
(* the rows or the folds: the step of 'v' itself, every step taken while   *)
(* the UI task is inside cache.Log or waits for the pager, and the steps   *)
(* in which these return.                                                  *)
(***************************************************************************)
C18_LogKeepsUI ==
    [][(\/ run.pc \in {"log", "pager"}
        \/ /\ last'.op = "Process"
           /\ ctl.focus = "table"
           /\ last'.arg = keyEvent("v")) =>
            /\ ctl'.focus = ctl.focus
            /\ table' = table]_vars

\* the pager has returned to a table with an open fold and the cursor on
\* its second row
C18_Witness ==
    /\ last.op = "PagerExit"
    /\ last.arg = "nil"
    /\ run.pc = "select"
    /\ ctl.focus = "table"
    /\ table.cursorIndex = validInt(1)
    /\ OpenPathSet(table) # {}

(***************************************************************************)
(* C19: after the table is built from a forest, every node that lists a    *)
(* column in InheritedValues() shows in that column its own value when     *)
(* that value is not empty, and its parent's shown value only when its own *)
(* value is empty; a top-level node shows its own values.                  *)
(***************************************************************************)
RECURSIVE ShowsOwnFirst(_, _, _, _)
ShowsOwnFirst(n, inner, parent, top) ==
    /\ \A c \in n.inherited :
          inner.values[c] = IF top \/ n.values[c] # <<>> THEN n.values[c]
                            ELSE parent.values[c]
    /\ \A i \in DOMAIN n.children :
          ShowsOwnFirst(n.children[i], inner.children[i], inner, FALSE)

C19_OwnValueFirst ==
    last.op \in {"New", "Replace"} =>
        \A i \in DOMAIN last.arg :
            ShowsOwnFirst(last.arg[i], table.nodes[i], zeroNode, TRUE)

\* what the code does instead: a listed column always shows the parent's
\* value, which is empty above a top-level node
RECURSIVE ShowsParents(_, _, _)
ShowsParents(n, inner, parent) ==
    /\ \A c \in Columns :
          inner.values[c] = IF c \in n.inherited THEN parent.values[c]
                            ELSE n.values[c]
    /\ \A i \in DOMAIN n.children :
          ShowsParents(n.children[i], inner.children[i], inner)

C19_ParentValueAlways ==
    last.op \in {"New", "Replace"} =>
        \A i \in DOMAIN last.arg :
            ShowsParents(last.arg[i], table.nodes[i], zeroNode)

(***************************************************************************)
(* C20: over Replace, SetTraversable, Scroll and Resize the stored width   *)
(* of a column never decreases; it is at least the width of the header     *)
(* and at least the width of the column's value, plus that of the prefix   *)
(* in a TreePrefix column, in every row of the traversal; the width a      *)
(* column is rendered with is the stored width, but at most MaxWidth.      *)
(***************************************************************************)
C20_WidthsHold ==
    ~table.panic =>
        \A id \in Columns :
            /\ table.columnWidth[id] >= table.conf[id].Header
            /\ \A i \in 0 .. (Len(table.rows) - 1) :
                  table.columnWidth[id] >= rowWidth(table, i, id)
            /\ styledWidth(table, id) <= table.conf[id].MaxWidth
            /\ styledWidth(table, id) <= table.columnWidth[id]
            /\ styledWidth(table, id) \in
                    {table.columnWidth[id], table.conf[id].MaxWidth}

C20_WidthsGrow ==
    [][\A id \in Columns : table'.columnWidth[id] >= table.columnWidth[id]]_vars

C20_WidthsNeverShrink == C20_WidthsGrow /\ []C20_WidthsHold

\* a forest of narrow texts has replaced one with a wide text two levels
\* deep: the column is wider than any row now asks and than MaxWidth
C20_Witness ==
    /\ last.op = "Replace"
    /\ ~table.panic
    /\ Len(table.rows) > 0
    /\ \A id \in Columns :
          /\ table.conf[id].TreePrefix
          /\ table.columnWidth[id] = 8
          /\ \A i \in 0 .. (Len(table.rows) - 1) : rowWidth(table, i, id) = 2
          /\ styledWidth(table, id) = 3

(***************************************************************************)
(* C21: in the prefix of every row, for every proper ancestor of the row's *)
(* node below the top level, the column of that ancestor's connector holds *)
(* a vertical bar if the ancestor is not the last child of its parent and  *)
(* a space if it is; no other column holds a vertical bar.                 *)
(***************************************************************************)
NodeOf(t, path) == CHOOSE n \in NodeSet(t.nodes) : n.path = path

\* the node with this path (of length 2 or more) is the last child
IsLastChild(t, path) ==
    LET siblings == NodeOf(t, ParentPath(path)).children
    IN siblings[Len(siblings)].path = path

\* the column (from 1) of the connector of a node of depth d >= 2
ConnectorColumn(d) == 4 * (d - 2) + 2

C21_BarsAreAncestors ==
    ~table.panic =>
        \A i \in DOMAIN table.rows :
            LET path == table.rows[i]
                prefix == NodeOf(table, path).prefix
                Above == 2 .. (Len(path) - 1)
            IN /\ \A d \in Above :
                    prefix[ConnectorColumn(d)] =
                        IF IsLastChild(table, SubSeq(path, 1, d)) THEN " " ELSE "|"
               /\ \A k \in DOMAIN prefix :
                    prefix[k] = "|" => \E d \in Above : k = ConnectorColumn(d)

\* a fold has been opened and a row of depth three stands under a parent
\* that is not a last child
C21_Witness ==
    /\ last.op = "SetTraversable"
    /\ ~table.panic
    /\ \E i \in DOMAIN table.rows :
          /\ Len(table.rows[i]) = 3
          /\ NodeOf(table, table.rows[i]).prefix[2] = "|"

(***************************************************************************)
(* C22: the prefix of every row contains '+' exactly when the row's node   *)
(* has a child and is closed, and the connector of a row below the top     *)
(* level is the corner of a last sibling exactly when the node is the last *)
(* child of its parent (the tee otherwise).                                *)
(***************************************************************************)
C22_FoldMarkAgrees ==
    ~table.panic =>
        \A i \in DOMAIN table.rows :
            LET path == table.rows[i]
                n == NodeOf(table, path)
            IN /\ (\E k \in DOMAIN n.prefix : n.prefix[k] = "+")
                        <=> (Len(n.children) > 0 /\ ~n.traversable)
               /\ Len(path) >= 2 =>
                    n.prefix[ConnectorColumn(Len(path))] =
                        IF IsLastChild(table, path) THEN "L" ELSE "T"

\* after a fold or an unfold: a closed node with a child, not a last
\* sibling, next to a leaf that is the last sibling
C22_Witness ==
    /\ last.op = "SetTraversable"
    /\ ~table.panic
    /\ \E i, j \in DOMAIN table.rows :
          /\ NodeOf(table, table.rows[i]).prefix = <<" ", "T", "_", "+", " ">>
          /\ NodeOf(table, table.rows[j]).prefix = <<" ", "L", "_", "_", " ">>
          /\ NodeOf(table, table.rows[j]).children = <<>>

(***************************************************************************)
(* C23: the text handed to the pager is a fixed point of the               *)
(* post-processing: processing it once more gives the same text.           *)
(***************************************************************************)
C23_PostprocessIdempotent ==
    last.op = "Exec" => postprocess(last.arg.stdin) = last.arg.stdin

(***************************************************************************)
(* C24: the text handed to the pager holds no escape sequence and no       *)
(* carriage return followed by a character other than a carriage return    *)
(* or a line feed.                                                         *)
(***************************************************************************)
NoCarriageReturnRewrite(x) ==
    \A k \in 1 .. (Len(x) - 1) : x[k] = "R" => x[k + 1] \in {"R", "N"}

NoEscapeSequence(x) ==
    \A k \in DOMAIN x : escapeSequenceAt(SubSeq(x, k, Len(x))) = 0

C24_PagerTextClean ==
    last.op = "Exec" =>
        NoEscapeSequence(last.arg.stdin) /\ NoCarriageReturnRewrite(last.arg.stdin)

\* the part of it that the code keeps
C24_NoRewriteLeft ==
    last.op = "Exec" => NoCarriageReturnRewrite(last.arg.stdin)

(***************************************************************************)
(* C25: the traversal of a node is the fold-aware pre-order: the node,     *)
(* then, if it is traversable (or traverseAll), the traversals of its      *)
(* children in their declared order.  So a node below the root is returned *)
(* exactly when all its proper ancestors are traversable, every node with  *)
(* traverseAll, and the rows of the table are the pre-orders of the        *)
(* top-level nodes one after the other.                                    *)
(***************************************************************************)
RECURSIVE PreOrder(_, _)
RECURSIVE PreOrderAll(_, _)
PreOrder(n, traverseAll) ==
    <<n.path>> \o (IF traverseAll \/ n.traversable
                     THEN PreOrderAll(n.children, traverseAll)
                     ELSE <<>>)
PreOrderAll(nodes, traverseAll) ==
    IF nodes = <<>> THEN <<>>
    ELSE PreOrder(nodes[1], traverseAll) \o PreOrderAll(Tail(nodes), traverseAll)

PathsOf(nodes) == [i \in DOMAIN nodes |-> nodes[i].path]

\* every proper ancestor of the node with this path is traversable
AncestorsOpen(t, path) ==
    \A d \in 1 .. (Len(path) - 1) : NodeOf(t, SubSeq(path, 1, d)).traversable

C25_PreOrder ==
    ~table.panic =>
        /\ \A i \in DOMAIN table.nodes : \A all \in BOOLEAN :
              PathsOf(nodeDepthFirstTraversal(table.nodes[i], all))
                    = PreOrder(table.nodes[i], all)
        /\ table.rows = PreOrderAll(table.nodes, FALSE)
        /\ {table.rows[i] : i \in DOMAIN table.rows}
                = {p \in PathSet(table) : AncestorsOpen(table, p)}
        /\ {n.path : n \in {depthFirstTraversal(table, TRUE)[i] :
                                i \in DOMAIN depthFirstTraversal(table, TRUE)}}
                = PathSet(table)

\* four nodes, one of them closed over a hidden child, another open over a
\* shown one, and a second top-level node after them
C25_Witness ==
    /\ last.op = "SetTraversable"
    /\ ~table.panic
    /\ table.rows = <<<<1>>, <<1, 1>>, <<2>>>>
    /\ <<2, 1>> \in PathSet(table)
    /\ ~NodeOf(table, <<2>>).traversable

(***************************************************************************)
(* C26: for a URL that names owner and repo, in the SSH form ("git@",      *)
(* ':' after the host) or with a scheme or none ('/' after the host),      *)
(* with ".git" after the repo or not, with more path components or not,    *)
(* the slug is owner/repo and there is no error; with the owner alone      *)
(* after the host there is an error.                                       *)
(***************************************************************************)
\* the shapes the claim speaks of
SSHForm(u) == u.prefix = "git@" /\ u.sep = ":"
WebForm(u) == u.prefix # "git@" /\ u.sep = "/"
NamesRepo(u) == Len(u.path) = 2 \/ (Len(u.path) > 2 /\ ~u.git)

C26_SlugIsOwnerRepo ==
    last.op = "Slug" =>
        \A u \in URLShapes :
            (urlString(u) = last.arg.url /\ (SSHForm(u) \/ WebForm(u))) =>
                /\ NamesRepo(u) =>
                        last.arg.out = [slug |-> <<Owner, "/", Repo>>, err |-> FALSE]
                /\ Len(u.path) < 2 => last.arg.out.err

\* the same without the URLs that have a scheme or none and end in ".git"
C26_SlugUnlessWebGit ==
    last.op = "Slug" =>
        \A u \in URLShapes :
            (urlString(u) = last.arg.url /\ (SSHForm(u) \/ (WebForm(u) /\ ~u.git))) =>
                /\ NamesRepo(u) =>
                        last.arg.out = [slug |-> <<Owner, "/", Repo>>, err |-> FALSE]
                /\ Len(u.path) < 2 => last.arg.out.err

(***************************************************************************)
(* C27: building the provider of an entry never panics, and its interval   *)
(* is one second divided by max_requests_per_second (fractions included),  *)
(* or a tenth of a second, a twentieth for Travis, when the option is not  *)
(* set.                                                                    *)
(***************************************************************************)
C27_IntervalIsReciprocal ==
    last.op = "Providers" =>
        /\ ~last.arg.out.panic
        /\ last.arg.out.d =
              IF last.arg.conf.tenths > 0
                THEN (Second \div last.arg.conf.tenths) * 10
                        + ((Second % last.arg.conf.tenths) * 10) \div last.arg.conf.tenths
                ELSE IF last.arg.conf.vendor = "travis" THEN Second \div 20
                ELSE Second \div 10

\* the same for whole numbers of requests a second and for the option unset
C27_WholeRates ==
    (last.op = "Providers" /\ last.arg.conf.tenths % 10 = 0) =>
        /\ ~last.arg.out.panic
        /\ last.arg.out.d =
              IF last.arg.conf.tenths > 0
                THEN Second \div (last.arg.conf.tenths \div 10)
                ELSE IF last.arg.conf.vendor = "travis" THEN Second \div 20
                ELSE Second \div 10

C28_PendingReached ==
    /\ run = [pc |-> "select", tmpRef |-> PendingRef, err |-> "none"]
    /\ ctl = newController(InitialRef, InitialHeight)
    /\ senders = <<>>
    /\ monitors = <<[ref |-> PendingRef, cancelled |-> FALSE, pc |-> "start",
                     err |-> "nil"]>>
    /\ cache = [r \in KnownRefs |-> 0]
    /\ ~ctxDone /\ ~eventc

(***************************************************************************)
(* C29: a forest nested deeper than maxTreeDepth is not stored, Replace    *)
(* panics; of a forest that is stored every node has a path as long as its *)
(* depth, at most maxTreeDepth, and no two nodes have the same path;       *)
(* ActiveNodePath is the path of the cursor's row, and nil (the empty      *)
(* path) when the cursor is not valid.                                     *)
(***************************************************************************)
RECURSIVE Depth(_)
Depth(forest) ==
    IF forest = <<>> THEN 0
    ELSE LET below == {Depth(forest[i].children) : i \in DOMAIN forest}
         IN 1 + CHOOSE d \in below : \A e \in below : e <= d

\* every node under these is stored with a path as long as its depth
RECURSIVE PathsAreDepths(_, _)
PathsAreDepths(nodes, depth) ==
    \A i \in DOMAIN nodes :
        /\ Len(nodes[i].path) = depth
        /\ depth <= maxTreeDepth
        /\ PathsAreDepths(nodes[i].children, depth + 1)

\* the number of nodes stored under these
RECURSIVE Stored(_)
Stored(nodes) ==
    IF nodes = <<>> THEN 0
    ELSE 1 + Stored(nodes[1].children) + Stored(Tail(nodes))

C29_Refused ==
    /\ last.op = "Replace"
    /\ Depth(last.arg) = maxTreeDepth + 1
    /\ table.panic

(***************************************************************************)
(* C30: a call of SavePipeline for a cached pipeline with an updatedAt not *)
(* greater than the cached one returns changed = false and leaves the      *)
(* store, hence every later snapshot, as it was, whichever writer calls    *)
(* and whatever the writers did before.                                    *)
(***************************************************************************)
C30_StaleWriteNoOp ==
    [][(/\ last'.op = "SavePipeline"
        /\ cache[last'.arg.key] # NoPipeline
        /\ last'.arg.p.updatedAt <= cache[last'.arg.key].updatedAt) =>
            (~last'.arg.changed /\ cache' = cache)]_vars

\* the same for an updatedAt smaller than the cached one
C30_OlderWriteNoOp ==
    [][(/\ last'.op = "SavePipeline"
        /\ cache[last'.arg.key] # NoPipeline
        /\ last'.arg.p.updatedAt < cache[last'.arg.key].updatedAt) =>
            (~last'.arg.changed /\ cache' = cache)]_vars

(***************************************************************************)
(* C31: the updates channel keeps one tick and drops on full: a tick a     *)
(* monitor sends is discarded only while another tick is pending.          *)
(***************************************************************************)
C31_DropsOnlyOnFull ==
    [][last'.op = "MonitorDrop" => Cardinality(ticksPending(monitors)) > 1]_vars

\* a tick is dropped while it is the only one sent: the UI task is in the
\* pager and receives nothing
C31_LoneTickDropped ==
    /\ last.op = "MonitorDrop"
    /\ ticksPending(monitors) = {}
    /\ run.pc = "pager"

(***************************************************************************)
(* C32: no goroutine stays blocked on errc: once Run has returned, after   *)
(* which nothing receives from errc, no monitor goroutine is at its send   *)
(* on errc.                                                                *)
(***************************************************************************)
C32_NoSendStranded ==
    run.pc = "returned" => \A i \in DOMAIN monitors : monitors[i].pc # "errsend"

\* the goroutines that are stranded have all had their context cancelled:
\* the send has no case for it
C32_StrandedAreCancelled ==
    run.pc = "returned" =>
        \A i \in DOMAIN monitors : monitors[i].pc = "errsend" => monitors[i].cancelled

(***************************************************************************)
(* C33: when the loop receives context.Canceled from errc, the error of a  *)
(* monitor cancelled by a switch of ref, it goes on and leaves the status  *)
(* line, the focus, the displayed ref and the table as they were.          *)
(***************************************************************************)
C33_CancellationSilent ==
    [][(last'.op = "RecvErr" /\ last'.arg = "canceled") =>
           /\ run' = run
           /\ ctl' = ctl
           /\ table' = table]_vars

\* the loop has received the cancellation of a monitor that a switch of ref
\* cancelled (Run's own context is not cancelled) and is back in its select
C33_Witness ==
    /\ last = step("RecvErr", "canceled", "ui")
    /\ ~ctxDone
    /\ run.pc = "select"
    /\ monitors # <<>>

(***************************************************************************)
(* C36: the displayed ref changes only when the loop takes a tick sent by  *)
(* the monitor started for the ref it changes to.                          *)
(***************************************************************************)
C36_AdoptsOnOwnTick ==
    [][ctl'.ref # ctl.ref =>
           /\ last'.op = "Update"
           /\ \E i \in DOMAIN monitors :
                 /\ monitors[i].pc = "tick"
                 /\ monitors'[i].pc = "monitor"
                 /\ monitors[i].ref = ctl'.ref]_vars

\* the displayed ref changes only when a tick is taken, whichever monitor
\* sent it
C36_AdoptsOnSomeTick ==
    [][ctl'.ref # ctl.ref =>
           /\ last'.op = "Update"
           /\ ctl'.ref = run.tmpRef
           /\ \E i \in DOMAIN monitors :
                 monitors[i].pc = "tick" /\ monitors'[i].pc = "monitor"]_vars

(***************************************************************************)
(* C37: ref requests are honoured in the order of their submission: the    *)
(* loop never receives a request while one submitted earlier, for another  *)
(* ref, is still waiting, so that the request received last, whose monitor *)
(* is left running, is the one submitted last.                             *)
(***************************************************************************)
C37_SubmissionOrder ==
    [][last'.op = "RecvRef" =>
           \E k \in DOMAIN senders :
               /\ senders' = Remove(senders, k)
               /\ run'.tmpRef = senders[k].val
               /\ \A j \in 1 .. (k - 1) : senders[j] = senders[k]]_vars

\* every request has been received and the monitor left running is the one
\* of the first request, B, started after the monitor of the second
C37_FirstRequestWins ==
    /\ senders = <<>>
    /\ requests = MaxRequests
    /\ Len(monitors) = 3
    /\ monitors[3].ref = FirstRequest
    /\ monitors[2].ref # FirstRequest
    /\ ~monitors[3].cancelled

\* the state SpecOrder starts from, as Run reaches it
C37_WaitingReached ==
    /\ senders = <<refRequest(FirstRequest)>>
    /\ Len(monitors) = 1
    /\ monitors[1].pc = "monitor"
    /\ ~monitors[1].cancelled
    /\ run = [pc |-> "select", tmpRef |-> InitialRef, err |-> "none"]
    /\ ctl = refresh(newController(InitialRef, InitialHeight),
                     NewHierarchicalTable(<<>>, InitialHeight), cache).c
    /\ cache = [x \in KnownRefs |-> IF x = InitialRef THEN 1 ELSE 0]
    /\ ~eventc /\ ~ctxDone

(***************************************************************************)
(* C35: the indexes of the table: after any sequence of operations the     *)
(* cursor and the page are both invalid, or both valid with                *)
(* 0 <= pageIndex <= cursorIndex <= len(rows) - 1 and                      *)
(* cursorIndex <= pageIndex + PageSize - 1, and no operation has indexed   *)
(* the rows out of range.                                                  *)
(***************************************************************************)
IndexesHold(t) ==
    /\ t.cursorIndex.Valid = t.pageIndex.Valid
    /\ t.cursorIndex.Valid =>
          /\ 0 <= t.pageIndex.Int
          /\ t.pageIndex.Int <= t.cursorIndex.Int
          /\ t.cursorIndex.Int <= Len(t.rows) - 1
          /\ t.cursorIndex.Int <= t.pageIndex.Int + PageSize(t) - 1

C35_IndexInvariant == ~table.panic /\ IndexesHold(table)

\* what holds instead: the cursor and the page are valid together, and with
\* a page of one row at least both are indexes of rows
C35_ValidTogether ==
    /\ table.cursorIndex.Valid = table.pageIndex.Valid
    /\ (PageSize(table) >= 1 /\ table.cursorIndex.Valid) =>
          /\ inRange(table, table.cursorIndex.Int)
          /\ inRange(table, table.pageIndex.Int)

\* an operation has indexed the rows out of range
C35_OutOfRange == table.panic /\ last.op \in {"Replace", "SetTraversable"}

(***************************************************************************)
(* C38: SetTraversable(open, recursive) with a valid cursor gives the      *)
(* fold state open to the cursor's node, or with recursive to the nodes of *)
(* its subtree, and leaves the fold state of every other node, the set of  *)
(* nodes and the paths under the cursor and at the top of the page as they *)
(* were; with an invalid cursor it changes nothing.                        *)
(***************************************************************************)
FoldStates(t) == {<<n.path, n.traversable>> : n \in NodeSet(t.nodes)}

IsPrefix(p, q) == Len(p) <= Len(q) /\ SubSeq(q, 1, Len(p)) = p

FoldsSetAt(t, path, open, recursive) ==
    {<<n.path,
       IF n.path = path \/ (recursive /\ IsPrefix(path, n.path))
           THEN open ELSE n.traversable>> : n \in NodeSet(t.nodes)}

C38_FoldsCursorOnly ==
    [][last'.op = "SetTraversable" =>
          IF ~table.cursorIndex.Valid THEN table' = table
          ELSE /\ ~table'.panic
               /\ FoldStates(table') =
                     FoldsSetAt(table, rowPath(table, table.cursorIndex.Int),
                                last'.arg[1], last'.arg[2])
               /\ table'.cursorIndex.Valid /\ table'.pageIndex.Valid
               /\ rowPath(table', table'.cursorIndex.Int) =
                     rowPath(table, table.cursorIndex.Int)
               /\ rowPath(table', table'.pageIndex.Int) =
                     rowPath(table, table.pageIndex.Int)]_vars

\* the same for the calls made while the indexes of the table hold
C38_FoldsWhileIndexesHold ==
    [][(last'.op = "SetTraversable" /\ IndexesHold(table)) =>
          IF ~table.cursorIndex.Valid THEN table' = table
          ELSE /\ ~table'.panic
               /\ FoldStates(table') =
                     FoldsSetAt(table, rowPath(table, table.cursorIndex.Int),
                                last'.arg[1], last'.arg[2])
               /\ table'.cursorIndex.Valid /\ table'.pageIndex.Valid
               /\ rowPath(table', table'.cursorIndex.Int) =
                     rowPath(table, table.cursorIndex.Int)
               /\ rowPath(table', table'.pageIndex.Int) =
                     rowPath(table, table.pageIndex.Int)]_vars

(***************************************************************************)
(* C39: closing then reopening the fold under the cursor is a round trip:  *)
(* when SetTraversable(true, false) follows SetTraversable(false, false)   *)
(* on a node that was open, the rows, the prefixes, the cursor and the     *)
(* page are again what they were before the node was closed.               *)
(***************************************************************************)
C39_CloseOpenRoundTrip ==
    [][(/\ last'.op = "SetTraversable"
        /\ last'.arg = <<FALSE, FALSE>>
        /\ table.cursorIndex.Valid
        /\ inRange(table, table.cursorIndex.Int)
        /\ NodeOf(table, rowPath(table, table.cursorIndex.Int)).traversable) =>
            prefixes(SetTraversable(table', TRUE, FALSE)) = table]_vars

\* the same for the calls made while the indexes of the table hold
C39_RoundTripWhileIndexesHold ==
    [][(/\ last'.op = "SetTraversable"
        /\ last'.arg = <<FALSE, FALSE>>
        /\ IndexesHold(table)
        /\ table.cursorIndex.Valid
        /\ NodeOf(table, rowPath(table, table.cursorIndex.Int)).traversable) =>
            prefixes(SetTraversable(table', TRUE, FALSE)) = table]_vars

(***************************************************************************)
(* C34: the order of RunWidgetApp on an ExecCmd: the screen is finalised   *)
(* when the command starts; the context of the stream is live while the    *)
(* command runs and is cancelled once it has exited; an output event is    *)
(* taken only with the current screen initialised and a poller started for *)
(* it; a ShowText is never drawn on a finalised screen.                    *)
(***************************************************************************)
C34_ExecOrder ==
    [][/\ last'.op = "ExecStart" =>
              /\ run.screens[run.screen] = "fini"
              /\ \A s \in DOMAIN run.screens : run.screens[s] = "fini"
       /\ run'.cmd = "running" => run'.subCtx = "live"
       /\ (run'.subCtx = "cancelled" /\ run.subCtx # "cancelled") =>
              run.cmd = "exited"
       /\ last'.op = "MainRecvOut" =>
              /\ run.screen # 0
              /\ run.screens[run.screen] = "init"
              /\ \E k \in DOMAIN run.pollers : run.pollers[k].for = run.screen
              /\ run.subCtx \in {"none", "cancelled"}
       /\ (last'.op = "MainRecvOut" /\ last'.arg = "ShowText") =>
              run'.drawn = "init"]_vars

\* a ShowText has been drawn after an ExecCmd was handled
C34_Witness ==
    /\ last = step("MainRecvOut", "ShowText", "main")
    /\ run.pc = "select"
    /\ Len(run.screens) = 2
    /\ run.screens = <<"fini", "init">>
    /\ run.subCtx = "cancelled"
    /\ run.cmd = "exited"
    /\ run.drawn = "init"

(***************************************************************************)
(* C40: at most one polling goroutine reads the events of a screen at any  *)
(* time, and a goroutine polls no other screen than the one it was started *)
(* for: the poller started before an ExecCmd never polls the screen made   *)
(* after the command.                                                      *)
(***************************************************************************)
PollersOn(s) ==
    {k \in DOMAIN run.pollers :
        run.pollers[k].pc = "polling" /\ run.pollers[k].on = s}

C40_OnePollerPerScreen ==
    /\ \A s \in DOMAIN run.screens : Cardinality(PollersOn(s)) <= 1
    /\ \A k \in DOMAIN run.pollers :
          run.pollers[k].pc = "polling" => run.pollers[k].on = run.pollers[k].for

\* a poller that is inside PollEvent when its screen is finalised ends
\* there: it polls another screen only if it was at its send on eventc, or
\* had not yet called PollEvent, while the screen was replaced
C40_EndsWhenInPollEvent ==
    [][\A k \in DOMAIN run.pollers :
          (run.pollers[k].pc = "polling" /\ run.screens[run.pollers[k].on] = "fini")
              => run'.pollers[k].pc \in {"polling", "done"}]_vars

\* two goroutines are polling the screen made after the command
C40_TwoPollers ==
    /\ Len(run.screens) = 2
    /\ run.screens[2] = "init"
    /\ PollersOn(2) = {1, 2}

=============================================================================
